---- MODULE Spec2Model ----
(***************************************************************************)
(* The ingestion / accumulation / dispatch core of MIRIX: the Redis-held   *)
(* per-user staging queue (mirix/agent/redis_message_store.py) and the     *)
(* TemporaryMessageAccumulator (mirix/agent/temporary_message_accumulator  *)
(* .py) that appends to it, checks readiness and absorbs batches under a   *)
(* distributed lock, run by several pods against one coordinator.          *)
(***************************************************************************)
EXTENDS Integers, Sequences, FiniteSets, TLC

\* ------------------------------------------------------------------ bounds
Users == {"u1", "u2"}
Pods == {"p1", "p2"}

\* number of Staged Messages appended in one behaviour (timestamps 1..MaxAppend)
MaxAppend == 3
\* number of absorb_content_into_memory calls started in one behaviour
MaxAbsorb == 2
\* number of TTL expiries of mirix:lock:absorb:* while a pod is inside absorb
MaxExpire == 1
\* number of conversation pairs appended in one behaviour
MaxConv == 2
\* settings.redis_message_max_length / redis_conversation_max_length (scaled)
redis_message_max_length == 2
redis_conversation_max_length == 1
\* TEMPORARY_MESSAGE_LIMIT (scaled): the default of temporary_message_limit
TEMPORARY_MESSAGE_LIMIT == 2

\* Python's None, by the type of the value it stands in for: a list-valued field
\* holds a sequence, and None and [] (both falsy, both stored as null) are the empty
\* sequence; a dict-valued one holds a record; a string-valued one a string
NoneList == <<>>
NoneDict == [none |-> TRUE]
NoneStr == "None"

\* ------------------------------------------------ coordinator list commands
Min(a, b) == IF a < b THEN a ELSE b
Max(a, b) == IF a > b THEN a ELSE b

\* Redis index normalisation: a negative index counts from the tail
RedisIndex(len, i) == IF i < 0 THEN len + i ELSE i

\* LRANGE key start stop (0-based, inclusive, out-of-range clamped)
LRANGE(list, start, stop) ==
    LET len == Len(list)
        s == Max(RedisIndex(len, start), 0)
        e == Min(RedisIndex(len, stop), len - 1)
    IN  IF s > e THEN <<>> ELSE SubSeq(list, s + 1, e + 1)

\* LTRIM key start stop keeps exactly the range LRANGE returns
LTRIM(list, start, stop) == LRANGE(list, start, stop)

\* LPUSH key value puts the value at the head
LPUSH(list, value) == <<value>> \o list

\* SET key value: the value replaces what the key held
RPUSHOverwriting(list, value) == <<value>>

\* RPUSH key value appends at the tail
RPUSH(list, value) == Append(list, value)

LLEN(list) == Len(list)

\* Python truthiness of a list-or-None value
Truthy(x) == x # NoneList

\* ----------------------------------------------------------- serialization
\* An image reference as the accumulator holds it in memory:
\*   a placeholder dict  [py |-> "dict", pending |-> TRUE, upload_uuid, filename]
\*   a cloud file object [py |-> "obj", uri, name]
\*   a local path string [py |-> "str", path]
IsPendingPlaceholder(ref) ==
    "py" \in DOMAIN ref /\ ref.py = "dict" /\ "pending" \in DOMAIN ref /\ ref.pending = TRUE
HasUriAttr(ref) == "py" \in DOMAIN ref /\ ref.py = "obj" /\ "uri" \in DOMAIN ref

RECURSIVE SerializeRefs(_)
SerializeRefs(refs) ==
    IF refs = <<>> THEN <<>>
    ELSE LET ref == Head(refs)
             one == IF IsPendingPlaceholder(ref)
                    THEN [type |-> "pending", upload_uuid |-> ref.upload_uuid,
                          filename |-> ref.filename]
                    ELSE IF HasUriAttr(ref)
                    THEN [type |-> "google_cloud_file", uri |-> ref.uri, name |-> ref.name]
                    ELSE [type |-> "local_file", path |-> ref.path]
         IN  <<one>> \o SerializeRefs(Tail(refs))

\* a serialization that stores the first reference only
_serialize_image_uris_first(image_uris) ==
    IF ~Truthy(image_uris) THEN NoneList ELSE SerializeRefs(SubSeq(image_uris, 1, 1))

_serialize_image_uris(image_uris) ==
    IF ~Truthy(image_uris) THEN NoneList ELSE SerializeRefs(image_uris)

RECURSIVE DeserializeRefs(_)
DeserializeRefs(items) ==
    IF items = <<>> THEN <<>>
    ELSE LET item == Head(items)
             one == IF item.type = "pending"
                    THEN [py |-> "dict", pending |-> TRUE, upload_uuid |-> item.upload_uuid,
                          filename |-> item.filename]
                    ELSE IF item.type = "google_cloud_file"
                    THEN [py |-> "dict", type |-> "google_cloud_file", uri |-> item.uri,
                          name |-> item.name]
                    ELSE [py |-> "str", path |-> item.path]
         IN  <<one>> \o DeserializeRefs(Tail(items))

_deserialize_image_uris(serialized_uris) ==
    IF ~Truthy(serialized_uris) THEN NoneList ELSE DeserializeRefs(serialized_uris)

\* only the count of the audio segments is stored
_serialize_audio_segments(audio_segments) ==
    IF ~Truthy(audio_segments) THEN NoneDict ELSE [count |-> Len(audio_segments)]

\* audio data is not recovered from the coordinator
_deserialize_audio_segments(serialized_audio) == NoneList

\* message_data is the dict [image_uris, sources, audio_segments, message, ...]
_serialize_message(timestamp, message_data) ==
    [timestamp |-> timestamp,
     image_uris |-> _serialize_image_uris(message_data.image_uris),
     sources |-> message_data.sources,
     audio_segments |-> _serialize_audio_segments(message_data.audio_segments),
     message |-> message_data.message]

\* the (timestamp, message_data) tuple, as one record
_deserialize_message(msg) ==
    [timestamp |-> msg.timestamp,
     image_uris |-> _deserialize_image_uris(msg.image_uris),
     sources |-> msg.sources,
     audio_segments |-> _deserialize_audio_segments(msg.audio_segments),
     message |-> msg.message]

RECURSIVE DeserializeAll(_)
DeserializeAll(list) ==
    IF list = <<>> THEN <<>>
    ELSE <<_deserialize_message(Head(list))>> \o DeserializeAll(Tail(list))

\* the timestamps of a sequence of (serialized or deserialized) messages
RECURSIVE Timestamps(_)
Timestamps(list) ==
    IF list = <<>> THEN <<>> ELSE <<Head(list).timestamp>> \o Timestamps(Tail(list))


\* ------------------------------------------------------------------- state
VARIABLES
    temp_messages,       \* mirix:temp_messages:{user_id}      : list per user
    user_conversations,  \* mirix:user_conversations:{user_id} : list per user
    lock_absorb,         \* mirix:lock:absorb:{user_id} exists
    upload_status,       \* mirix:upload_status:{upload_id}    : record or None
    needs_upload,        \* TemporaryMessageAccumulator.needs_upload (model in GEMINI_MODELS)
    temporary_message_limit, \* TemporaryMessageAccumulator.temporary_message_limit
    local,               \* per pod: position and local variables of the running call
    next_ts,             \* the next producer timestamp
    conv_count,          \* conversation pairs appended so far
    absorb_calls,        \* absorb_content_into_memory calls started so far
    dispatch_log,        \* history: the batches handed to the Dispatcher, in order
    append_log,          \* history: per user, the timestamps in RPUSH order
    head_removed,        \* history: per user, how many elements LTRIM took off the head
    lock_expiries,       \* history: per user, TTL expiries of the absorb lock
    lock_init,           \* mirix:lock:init:{user_id} exists
    user_init_done,      \* mirix:user_init_done:{user_id}    : absent, or set without / with a TTL
    initialization_count, \* per user, the shared counter of the pods that ran its initialization
    init_work,           \* history: per user, how often the initialization work was performed
    roundtrip,           \* a message on its way through _serialize_message / _deserialize_message
    processed_counts,    \* the batch sizes the absorbing pods reported, in order
    fanout,              \* one run of _send_to_memory_agents_separately: workers and collector
    build,               \* one run of _build_memory_message: its input and the message built
    deleted_files,       \* the local image files absorption has deleted
    queue_ttl,           \* the remaining TTL of mirix:temp_messages / user_conversations keys
    status_log,          \* per upload id, the set / delete / expiry operations so far
    status_read,         \* what the last get_upload_status call returned
    rejected             \* the calls that raised ValueError, in order

vars == <<temp_messages, user_conversations, lock_absorb, upload_status, needs_upload,
          temporary_message_limit, local, next_ts, conv_count, absorb_calls, dispatch_log, append_log, head_removed,
          lock_expiries, lock_init, user_init_done, initialization_count, init_work,
          roundtrip, processed_counts, fanout, build, deleted_files,
                   queue_ttl, status_log, status_read, rejected>>

coordinator == <<temp_messages, user_conversations, lock_absorb, upload_status>>
config == <<needs_upload, temporary_message_limit>>
history == <<dispatch_log, append_log, head_removed, lock_expiries>>
budget == <<next_ts, conv_count, absorb_calls>>
initialization == <<lock_init, user_init_done, initialization_count, init_work>>
harness == <<roundtrip, processed_counts, fanout, build, deleted_files,
                   queue_ttl, status_log, status_read, rejected>>

\* upload ids: the j-th image of the message stamped ts
MaxImages == 1
\* image references of one message passed through the serialization
MaxRefs == 2
\* the largest count handed to a direct atomic_pop_messages call
MaxPop == 3
UploadIds == {ts * 10 + j : ts \in 1..MaxAppend, j \in 1..MaxImages}
upload_id_of(ts, j) == ts * 10 + j

\* ------------------------------------------------------------ upload status
\* the record set_upload_status stores (filename and wall-clock time left out)
set_upload_status(status, result) ==
    [status |-> status,
     result |-> IF status = "completed" /\ result # NoneDict
                THEN IF result.py = "obj" /\ "uri" \in DOMAIN result /\ "name" \in DOMAIN result
                     THEN [type |-> "google_cloud", uri |-> result.uri, name |-> result.name]
                     ELSE [type |-> "other", value |-> result]
                ELSE NoneDict]

\* what get_upload_status returns for the stored record `data` (NoneDict: key absent)
get_upload_status(data) ==
    IF data = NoneDict THEN [status |-> "unknown", result |-> NoneDict]
    ELSE [status |-> data.status,
          result |-> IF data.result = NoneDict THEN NoneDict
                     ELSE IF data.result.type = "google_cloud"
                     THEN [py |-> "dict", uri |-> data.result.uri, name |-> data.result.name]
                     ELSE IF data.result.type = "other" THEN data.result.value
                     ELSE NoneDict]

\* upload_manager.get_upload_status(placeholder): the coordinator record decides
UploadManagerStatus(statuses, file_ref) == get_upload_status(statuses[file_ref.upload_uuid])

\* the file object the upload worker obtains for upload id `id`
CloudFile(id) == [py |-> "obj", uri |-> id, name |-> id]

\* --------------------------------------------------------- store operations
\* the coordinator keys: f"mirix:temp_messages:{user_id}",
\* f"mirix:user_conversations:{user_id}", f"mirix:lock:absorb:{user_id}"
\* a key that leaves the user id out
temp_messages_key_shared(user_id) == "u1"

temp_messages_key(user_id) == user_id
user_conversations_key(user_id) == user_id
lock_absorb_key(user_id) == user_id

\* limit = 0 stands for the default limit=None (both are falsy)
get_messages_from_redis(list, limit) ==
    DeserializeAll(LRANGE(list, 0, IF limit # 0 THEN limit - 1 ELSE -1))

remove_messages_from_redis(list, count) == LTRIM(list, count, -1)

\* the Lua script of atomic_pop_messages: [popped, rest]
atomic_pop_messages(list, count) ==
    LET messages == LRANGE(list, 0, count - 1)
    IN  [popped |-> DeserializeAll(messages),
         rest |-> IF Len(messages) > 0 THEN LTRIM(list, count, -1) ELSE list]

\* ------------------------------------------------------------- readiness
\* an inner loop that keeps the placeholder of a completed upload
RECURSIVE CheckImagesKeepPlaceholder(_, _, _, _)
CheckImagesKeepPlaceholder(statuses, refs, j, processed_image_uris) ==
    IF j > Len(refs) THEN [has_pending_uploads |-> FALSE, uris |-> processed_image_uris]
    ELSE LET file_ref == refs[j]
             st == UploadManagerStatus(statuses, file_ref)
         IN  IF IsPendingPlaceholder(file_ref) /\ st.status \in {"failed", "unknown"}
             THEN CheckImagesKeepPlaceholder(statuses, refs, j + 1, processed_image_uris)
             ELSE IF IsPendingPlaceholder(file_ref) /\ st.status # "completed"
             THEN [has_pending_uploads |-> TRUE, uris |-> processed_image_uris]
             ELSE CheckImagesKeepPlaceholder(statuses, refs, j + 1,
                                             Append(processed_image_uris, file_ref))

\* an inner loop that waits for an upload whose status record is gone
RECURSIVE CheckImagesWaitUnknown(_, _, _, _)
CheckImagesWaitUnknown(statuses, refs, j, processed_image_uris) ==
    IF j > Len(refs) THEN [has_pending_uploads |-> FALSE, uris |-> processed_image_uris]
    ELSE LET file_ref == refs[j] IN
         IF IsPendingPlaceholder(file_ref)
         THEN LET st == UploadManagerStatus(statuses, file_ref) IN
              IF st.status = "completed"
              THEN CheckImagesWaitUnknown(statuses, refs, j + 1,
                                          Append(processed_image_uris, st.result))
              ELSE IF st.status = "failed"
              THEN CheckImagesWaitUnknown(statuses, refs, j + 1, processed_image_uris)
              ELSE [has_pending_uploads |-> TRUE, uris |-> processed_image_uris]
         ELSE CheckImagesWaitUnknown(statuses, refs, j + 1,
                                     Append(processed_image_uris, file_ref))

\* the inner loop of should_absorb_content over item["image_uris"]
RECURSIVE CheckImages(_, _, _, _)
CheckImages(statuses, refs, j, processed_image_uris) ==
    IF j > Len(refs) THEN [has_pending_uploads |-> FALSE, uris |-> processed_image_uris]
    ELSE LET file_ref == refs[j] IN
         IF IsPendingPlaceholder(file_ref)
         THEN LET st == UploadManagerStatus(statuses, file_ref) IN
              IF st.status = "completed"
              THEN CheckImages(statuses, refs, j + 1, Append(processed_image_uris, st.result))
              ELSE IF st.status = "failed" \/ st.status = "unknown"
              THEN CheckImages(statuses, refs, j + 1, processed_image_uris)
              ELSE [has_pending_uploads |-> TRUE, uris |-> processed_image_uris]
         ELSE CheckImages(statuses, refs, j + 1, Append(processed_image_uris, file_ref))

\* an outer loop that skips a pending message and walks on
RECURSIVE ReadyWalkNoBreak(_, _, _, _)
ReadyWalkNoBreak(statuses, all_messages, i, ready_messages) ==
    IF i > Len(all_messages) THEN ready_messages
    ELSE LET item == all_messages[i]
             r == CheckImages(statuses, item.image_uris, 1, <<>>)
         IN  IF r.has_pending_uploads
             THEN ReadyWalkNoBreak(statuses, all_messages, i + 1, ready_messages)
             ELSE ReadyWalkNoBreak(statuses, all_messages, i + 1,
                                   Append(ready_messages, [item EXCEPT !.image_uris = r.uris]))

\* the outer loop of should_absorb_content: stops at the first pending message
RECURSIVE ReadyWalk(_, _, _, _)
ReadyWalk(statuses, all_messages, i, ready_messages) ==
    IF i > Len(all_messages) THEN ready_messages
    ELSE LET item == all_messages[i] IN
         IF Truthy(item.image_uris)
         THEN LET r == CheckImages(statuses, item.image_uris, 1, <<>>) IN
              IF r.has_pending_uploads THEN ready_messages
              ELSE ReadyWalk(statuses, all_messages, i + 1,
                             Append(ready_messages, [item EXCEPT !.image_uris = r.uris]))
         ELSE ReadyWalk(statuses, all_messages, i + 1, Append(ready_messages, item))

\* a gate that asks for more than limit messages
should_absorb_content_strict(upload, limit, statuses, list) ==
    LET all_messages == get_messages_from_redis(list, 0) IN
    IF upload
    THEN LET ready_messages == ReadyWalk(statuses, all_messages, 1, <<>>) IN
         IF Len(ready_messages) > limit THEN ready_messages ELSE <<>>
    ELSE IF Len(all_messages) > limit THEN SubSeq(all_messages, 1, limit) ELSE <<>>

should_absorb_content(upload, limit, statuses, list) ==
    LET all_messages == get_messages_from_redis(list, 0) IN
    IF upload
    THEN LET ready_messages == ReadyWalk(statuses, all_messages, 1, <<>>) IN
         IF Len(ready_messages) >= limit THEN ready_messages ELSE <<>>
    ELSE IF Len(all_messages) >= limit THEN SubSeq(all_messages, 1, limit) ELSE <<>>

\* the loops of absorb_content_into_memory when ready_messages is None: every
\* message is visited, a message with a pending upload goes to pending_items
RECURSIVE AbsorbImages(_, _, _, _, _)
AbsorbImages(upload, statuses, refs, j, processed_image_uris) ==
    IF j > Len(refs) THEN [has_pending_uploads |-> FALSE, uris |-> processed_image_uris]
    ELSE LET file_ref == refs[j] IN
         IF upload /\ IsPendingPlaceholder(file_ref)
         THEN LET st == UploadManagerStatus(statuses, file_ref) IN
              IF st.status = "completed"
              THEN AbsorbImages(upload, statuses, refs, j + 1,
                                Append(processed_image_uris, st.result))
              ELSE IF st.status = "failed" \/ st.status = "unknown"
              THEN AbsorbImages(upload, statuses, refs, j + 1, processed_image_uris)
              ELSE [has_pending_uploads |-> TRUE, uris |-> processed_image_uris]
         ELSE AbsorbImages(upload, statuses, refs, j + 1, Append(processed_image_uris, file_ref))

RECURSIVE AbsorbWalk(_, _, _, _, _, _)
AbsorbWalk(upload, statuses, all_messages, i, ready_to_process, pending_items) ==
    IF i > Len(all_messages)
    THEN [ready_to_process |-> ready_to_process, pending_items |-> pending_items]
    ELSE LET item == all_messages[i] IN
         IF Truthy(item.image_uris)
         THEN LET r == AbsorbImages(upload, statuses, item.image_uris, 1, <<>>) IN
              IF r.has_pending_uploads
              THEN AbsorbWalk(upload, statuses, all_messages, i + 1, ready_to_process,
                              Append(pending_items, item))
              ELSE AbsorbWalk(upload, statuses, all_messages, i + 1,
                              Append(ready_to_process, [item EXCEPT !.image_uris = r.uris]),
                              pending_items)
         ELSE AbsorbWalk(upload, statuses, all_messages, i + 1,
                         Append(ready_to_process, item), pending_items)


\* ------------------------------------------------------------------- pods
\* lock_epoch is history: the TTL expiries of the absorb lock that had happened
\* when this pod's acquire_user_lock succeeded
LocalInit ==
    [pc |-> "idle", user_id |-> NoneStr, has_preview |-> FALSE, ready_messages |-> <<>>,
     all_messages |-> <<>>, ready_to_process |-> <<>>, pending_items |-> <<>>,
     current_len |-> 0, user_message_added |-> FALSE, removed |-> <<>>,
     count |-> 0, setnx |-> FALSE, exception |-> NoneStr, lock_epoch |-> 0,
     conversations |-> <<>>]

\* positions between a successful acquire_user_lock and release_user_lock
Locked == {"absorb_read", "absorb_resolve", "absorb_remove", "absorb_conv", "absorb_send",
           "absorb_cleanup", "absorb_release"}
InAbsorb(p) == local[p].pc \in Locked
Absorbing(u) == {p \in Pods : InAbsorb(p) /\ local[p].user_id = u}

\* what a caller hands to add_message
FullMessages ==
    {[message |-> "text", image_uris |-> <<>>, sources |-> <<>>, voice_files |-> <<>>],
     [message |-> "text", image_uris |-> <<[py |-> "str", path |-> "img"]>>,
      sources |-> <<"app">>, voice_files |-> <<>>]}

\* upload_manager.upload_file_async: the placeholder of the j-th image
RECURSIVE Placeholders(_, _, _)
Placeholders(image_uris, ts, j) ==
    IF j > Len(image_uris) THEN <<>>
    ELSE <<[py |-> "dict", pending |-> TRUE, upload_uuid |-> upload_id_of(ts, j),
            filename |-> image_uris[j].path]>> \o Placeholders(image_uris, ts, j + 1)

\* the message_data add_message builds, in either branch
MessageData(upload, full_message, ts, delete_after_upload) ==
    IF upload
    THEN [image_uris |-> Placeholders(full_message.image_uris, ts, 1),
          sources |-> full_message.sources,
          audio_segments |-> NoneList,
          message |-> full_message.message]
    ELSE [image_uris |-> full_message.image_uris,
          sources |-> full_message.sources,
          audio_segments |-> full_message.voice_files,
          message |-> full_message.message,
          delete_after_upload |-> delete_after_upload]

\* no user was ever initialized, and nothing is being serialized or reported
Untouched ==
    /\ lock_init = [u \in Users |-> FALSE]
    /\ user_init_done = [u \in Users |-> "absent"]
    /\ initialization_count = [u \in Users |-> 0]
    /\ init_work = [u \in Users |-> 0]
    /\ roundtrip = NoneDict
    /\ processed_counts = <<>>
    /\ fanout = NoneDict
    /\ build = NoneDict
    /\ deleted_files = {}
    /\ queue_ttl = NoneDict
    /\ status_log = NoneDict
    /\ status_read = NoneDict
    /\ rejected = <<>>

Init ==
    /\ Untouched
    /\ temp_messages = [u \in Users |-> <<>>]
    /\ user_conversations = [u \in Users |-> <<>>]
    /\ lock_absorb = [u \in Users |-> FALSE]
    /\ upload_status = [id \in UploadIds |-> NoneDict]
    /\ needs_upload \in BOOLEAN
    /\ temporary_message_limit = TEMPORARY_MESSAGE_LIMIT
    /\ local = [p \in Pods |-> LocalInit]
    /\ next_ts = 1
    /\ conv_count = 0
    /\ absorb_calls = 0
    /\ dispatch_log = <<>>
    /\ append_log = [u \in Users |-> <<>>]
    /\ head_removed = [u \in Users |-> 0]
    /\ lock_expiries = [u \in Users |-> 0]

\* add_message -> add_message_to_redis: RPUSH (and EXPIRE) of the serialized message;
\* in the upload branch every image is first submitted to the upload manager
add_message_rpush(p, u, full_message, delete_after_upload) ==
    /\ local[p].pc = "idle"
    /\ next_ts <= MaxAppend
    /\ LET message_data == MessageData(needs_upload, full_message, next_ts, delete_after_upload)
       IN  temp_messages' = [temp_messages EXCEPT
               ![temp_messages_key(u)] = RPUSH(@, _serialize_message(next_ts, message_data))]
    /\ upload_status' =
          [id \in UploadIds |->
              IF needs_upload /\ \E j \in 1..Len(full_message.image_uris) :
                                    id = upload_id_of(next_ts, j)
              THEN set_upload_status("pending", NoneDict)
              ELSE upload_status[id]]
    /\ append_log' = [append_log EXCEPT ![u] = Append(@, next_ts)]
    /\ next_ts' = next_ts + 1
    /\ local' = [local EXCEPT ![p].pc = "add_llen", ![p].user_id = u]
    /\ UNCHANGED <<user_conversations, lock_absorb, config, initialization, harness, conv_count, absorb_calls,
                   dispatch_log, head_removed, lock_expiries>>

\* add_message_to_redis: current_len = client.llen(key)
add_message_llen(p) ==
    /\ local[p].pc = "add_llen"
    /\ local' = [local EXCEPT ![p].pc = "add_ltrim",
                              ![p].current_len = LLEN(temp_messages[temp_messages_key(local[p].user_id)])]
    /\ UNCHANGED <<coordinator, config, initialization, harness, budget, history>>

\* a trim that leaves one element too many
TrimmedMessagesOffByOne(list, current_len) ==
    IF current_len > redis_message_max_length
    THEN LTRIM(list, -redis_message_max_length - 1, -1) ELSE list

\* a trim that keeps the oldest elements
TrimmedMessagesKeepOldest(list, current_len) ==
    IF current_len > redis_message_max_length
    THEN LTRIM(list, 0, redis_message_max_length - 1) ELSE list

\* if current_len > max_len: client.ltrim(key, -max_len, -1)
TrimmedMessages(list, current_len) ==
    IF current_len > redis_message_max_length
    THEN LTRIM(list, -redis_message_max_length, -1) ELSE list

\* add_message_to_redis: if current_len > max_len: client.ltrim(key, -max_len, -1)
add_message_ltrim(p) ==
    LET u == local[p].user_id
        kept == TrimmedMessages(temp_messages[temp_messages_key(u)], local[p].current_len)
    IN  /\ local[p].pc = "add_ltrim"
        /\ temp_messages' = [temp_messages EXCEPT ![temp_messages_key(u)] = kept]
        /\ head_removed' = [head_removed EXCEPT
               ![u] = @ + Len(temp_messages[temp_messages_key(u)]) - Len(kept)]
        /\ local' = [local EXCEPT ![p] = LocalInit]
        /\ UNCHANGED <<user_conversations, lock_absorb, upload_status, config, initialization, harness, budget,
                       dispatch_log, append_log, lock_expiries>>

\* add_user_conversation -> add_conversation_to_redis: RPUSH (and EXPIRE) of the pair
add_conversation_rpush(p, u) ==
    /\ local[p].pc = "idle"
    /\ conv_count < MaxConv
    /\ conv_count' = conv_count + 1
    /\ user_conversations' = [user_conversations EXCEPT ![user_conversations_key(u)] = RPUSH(@, conv_count + 1)]
    /\ local' = [local EXCEPT ![p].pc = "conv_llen", ![p].user_id = u]
    /\ UNCHANGED <<temp_messages, lock_absorb, upload_status, config, initialization, harness, next_ts,
                   absorb_calls, history>>

add_conversation_llen(p) ==
    /\ local[p].pc = "conv_llen"
    /\ local' = [local EXCEPT ![p].pc = "conv_ltrim",
                              ![p].current_len = LLEN(user_conversations[user_conversations_key(local[p].user_id)])]
    /\ UNCHANGED <<coordinator, config, initialization, harness, budget, history>>

\* if current_len > max_len: client.ltrim(key, -max_len, -1)
TrimmedConversations(list, current_len) ==
    IF current_len > redis_conversation_max_length
    THEN LTRIM(list, -redis_conversation_max_length, -1) ELSE list

add_conversation_ltrim(p) ==
    LET u == local[p].user_id IN
    /\ local[p].pc = "conv_ltrim"
    /\ user_conversations' = [user_conversations EXCEPT
           ![user_conversations_key(u)] = TrimmedConversations(@, local[p].current_len)]
    /\ local' = [local EXCEPT ![p] = LocalInit]
    /\ UNCHANGED <<temp_messages, lock_absorb, upload_status, config, initialization, harness, budget, history>>


\* the caller's readiness check: ready_messages = should_absorb_content(user_id)
should_absorb(p, u) ==
    /\ local[p].pc = "idle"
    /\ absorb_calls < MaxAbsorb
    /\ local' = [local EXCEPT
           ![p].pc = "checked", ![p].user_id = u,
           ![p].ready_messages = should_absorb_content(needs_upload, temporary_message_limit,
                                                       upload_status,
                                                       temp_messages[temp_messages_key(u)])]
    /\ UNCHANGED <<coordinator, config, initialization, harness, budget, history>>

\* the caller does not absorb: nothing is ready, or it drops the result
should_absorb_return(p) ==
    /\ local[p].pc = "checked"
    /\ local' = [local EXCEPT ![p] = LocalInit]
    /\ UNCHANGED <<coordinator, config, initialization, harness, budget, history>>

\* absorb_content_into_memory(agent_states, ready_messages, user_id) is entered
absorb_call_preview(p) ==
    /\ local[p].pc = "checked"
    /\ local[p].ready_messages # <<>>
    /\ absorb_calls < MaxAbsorb
    /\ absorb_calls' = absorb_calls + 1
    /\ local' = [local EXCEPT ![p].pc = "absorb_called", ![p].has_preview = TRUE]
    /\ UNCHANGED <<coordinator, config, initialization, harness, next_ts, conv_count, history>>

\* absorb_content_into_memory(agent_states, None, user_id) is entered
absorb_call_none(p, u) ==
    /\ local[p].pc = "idle"
    /\ absorb_calls < MaxAbsorb
    /\ absorb_calls' = absorb_calls + 1
    /\ local' = [local EXCEPT ![p].pc = "absorb_called", ![p].user_id = u,
                              ![p].has_preview = FALSE]
    /\ UNCHANGED <<coordinator, config, initialization, harness, next_ts, conv_count, history>>

\* a SET without NX: succeeds whether or not the key exists
SetAlways(exists) == TRUE

\* SET key '1' NX EX timeout: set, and True, only if the key does not exist
SetNX(exists) == ~exists

\* lock_acquired = acquire_user_lock(user_id, timeout=30); if not: return
acquire_user_lock(p) ==
    LET u == local[p].user_id IN
    /\ local[p].pc = "absorb_called"
    /\ IF SetNX(lock_absorb[lock_absorb_key(u)])
       THEN /\ lock_absorb' = [lock_absorb EXCEPT ![lock_absorb_key(u)] = TRUE]
            /\ local' = [local EXCEPT
                   ![p].pc = IF local[p].has_preview THEN "absorb_remove" ELSE "absorb_read",
                   ![p].ready_to_process = local[p].ready_messages,
                   ![p].lock_epoch = lock_expiries[u]]
       ELSE /\ lock_absorb' = lock_absorb
            /\ local' = [local EXCEPT ![p].pc = "absorb_skipped"]
    /\ UNCHANGED <<temp_messages, user_conversations, upload_status, config, initialization, harness, budget, history>>

\* a skip that runs the finally clause: the key is deleted
LocksAfterSkipReleased(locks, user_id) == [locks EXCEPT ![lock_absorb_key(user_id)] = FALSE]

\* if not lock_acquired: ... return -- before the try, so no release_user_lock
LocksAfterSkip(locks, user_id) == locks

\* "Absorption already in progress ... Skipping." return
absorb_skip_return(p) ==
    /\ local[p].pc = "absorb_skipped"
    /\ lock_absorb' = LocksAfterSkip(lock_absorb, local[p].user_id)
    /\ local' = [local EXCEPT ![p] = LocalInit]
    /\ UNCHANGED <<temp_messages, user_conversations, upload_status, config, initialization,
                   harness, budget, history>>

\* ready_messages is None: all_messages = get_messages_from_redis(user_id)
absorb_read(p) ==
    /\ local[p].pc = "absorb_read"
    /\ local' = [local EXCEPT
           ![p].pc = "absorb_resolve",
           ![p].all_messages = get_messages_from_redis(temp_messages[temp_messages_key(local[p].user_id)], 0)]
    /\ UNCHANGED <<coordinator, config, initialization, harness, budget, history>>

\* ready_messages is None: the loop that splits ready_to_process from pending_items
absorb_resolve(p) ==
    /\ local[p].pc = "absorb_resolve"
    /\ LET w == AbsorbWalk(needs_upload, upload_status, local[p].all_messages, 1, <<>>, <<>>)
       IN  local' = [local EXCEPT ![p].pc = "absorb_remove",
                                  ![p].ready_to_process = w.ready_to_process,
                                  ![p].pending_items = w.pending_items]
    /\ UNCHANGED <<coordinator, config, initialization, harness, budget, history>>

\* remove_messages_from_redis(user_id, num_to_remove), resp. (user_id, num_processed)
\* when num_processed > 0
absorb_remove(p) ==
    LET u == local[p].user_id
        num == IF local[p].has_preview THEN Len(local[p].ready_messages)
               ELSE Len(local[p].all_messages) - Len(local[p].pending_items)
        kept == IF local[p].has_preview \/ num > 0
                THEN remove_messages_from_redis(temp_messages[temp_messages_key(u)], num)
                ELSE temp_messages[temp_messages_key(u)]
        gone == Len(temp_messages[temp_messages_key(u)]) - Len(kept)
    IN  /\ local[p].pc = "absorb_remove"
        /\ temp_messages' = [temp_messages EXCEPT ![temp_messages_key(u)] = kept]
        /\ head_removed' = [head_removed EXCEPT ![u] = @ + gone]
        /\ local' = [local EXCEPT
               ![p].pc = "absorb_conv",
               ![p].removed = Timestamps(SubSeq(temp_messages[temp_messages_key(u)], 1, gone))]
        /\ UNCHANGED <<user_conversations, lock_absorb, upload_status, config, initialization, harness, budget,
                       dispatch_log, append_log, lock_expiries>>

\* get_conversations_from_redis: client.lrange(key, 0, -1)
get_conversations_from_redis(list) == LRANGE(list, 0, -1)

\* _add_user_conversation_to_message: conversations = get_conversations_from_redis(user_id)
absorb_conv(p) ==
    /\ local[p].pc = "absorb_conv"
    /\ local' = [local EXCEPT
           ![p].pc = "absorb_send",
           ![p].conversations = get_conversations_from_redis(
                                    user_conversations[user_conversations_key(local[p].user_id)]),
           ![p].user_message_added = Len(user_conversations[user_conversations_key(local[p].user_id)]) > 0]
    /\ UNCHANGED <<coordinator, config, initialization, harness, budget, history>>

\* an exception that leaves absorb_content_into_memory at once, lock in place
OnRaisePropagate(pc) == "idle"

\* an exception that is logged, after which the cleanup runs as after a success
OnRaiseToCleanup(pc) == "absorb_cleanup"

\* an exception after which the try body is run again from its first read
OnRaiseRetry(pc) == "absorb_read"

\* try: ... finally: where an exception raised at position pc of the try body goes
OnRaise(pc) == "absorb_release"

\* _send_to_memory_agents_separately / _send_to_meta_memory_agent: the batch is handed
\* to the Dispatcher; the call returns (ok) or raises
absorb_send(p, ok) ==
    /\ local[p].pc = "absorb_send"
    /\ dispatch_log' = Append(dispatch_log,
           [pod |-> p, user_id |-> local[p].user_id,
            batch |-> Timestamps(local[p].ready_to_process), ok |-> ok])
    /\ local' = [local EXCEPT ![p].pc = IF ok THEN "absorb_cleanup" ELSE OnRaise(local[p].pc),
                              ![p].exception = IF ok THEN @ ELSE "dispatch"]
    /\ UNCHANGED <<coordinator, config, initialization, harness, budget, append_log, head_removed,
                   lock_expiries>>

\* should_delete = item.get("delete_after_upload", True)
should_delete(item) ==
    IF "delete_after_upload" \in DOMAIN item THEN item.delete_after_upload ELSE TRUE

\* if isinstance(image_uri, str): the local paths among the item's references
LocalPaths(item) ==
    {item.image_uris[j].path :
        j \in {j \in 1..Len(item.image_uris) : item.image_uris[j].py = "str"}}

\* the paths _cleanup_processed_content hands to _delete_local_image_file
DeletedLocalFiles(ready_to_process) ==
    UNION {IF should_delete(ready_to_process[i]) /\ Truthy(ready_to_process[i].image_uris)
           THEN LocalPaths(ready_to_process[i]) ELSE {} : i \in 1..Len(ready_to_process)}

\* _cleanup_processed_content: without uploads, delete the local image files; then
\* if user_message_added: clear_conversations_from_redis
absorb_cleanup(p) ==
    LET u == local[p].user_id IN
    /\ local[p].pc = "absorb_cleanup"
    /\ deleted_files' = IF needs_upload THEN deleted_files
                        ELSE deleted_files \cup DeletedLocalFiles(local[p].ready_to_process)
    /\ user_conversations' = [user_conversations EXCEPT
           ![user_conversations_key(u)] = IF local[p].user_message_added THEN <<>> ELSE @]
    /\ local' = [local EXCEPT ![p].pc = "absorb_release"]
    /\ UNCHANGED <<temp_messages, lock_absorb, upload_status, config, initialization,
                   roundtrip, processed_counts, fanout, build, queue_ttl, status_log,
                   status_read, rejected, budget, history>>

\* finally: release_user_lock(user_id) -- client.delete(key)
release_user_lock(p) ==
    /\ local[p].pc = "absorb_release"
    /\ lock_absorb' = [lock_absorb EXCEPT ![lock_absorb_key(local[p].user_id)] = FALSE]
    /\ local' = [local EXCEPT ![p] = LocalInit]
    /\ UNCHANGED <<temp_messages, user_conversations, upload_status, config, initialization, harness, budget, history>>

\* the 30 s TTL of mirix:lock:absorb:{user_id} elapses while a pod is inside absorb
lock_expire(u) ==
    /\ lock_absorb[lock_absorb_key(u)]
    /\ Absorbing(u) # {}
    /\ lock_expiries[u] < MaxExpire
    /\ lock_absorb' = [lock_absorb EXCEPT ![lock_absorb_key(u)] = FALSE]
    /\ lock_expiries' = [lock_expiries EXCEPT ![u] = @ + 1]
    /\ UNCHANGED <<temp_messages, user_conversations, upload_status, config, initialization, harness, local,
                   budget, dispatch_log, append_log, head_removed>>

\* the upload worker publishes the terminal status of upload `id`
upload_finish(id, status) ==
    /\ upload_status[id] # NoneDict
    /\ upload_status[id].status = "pending"
    /\ upload_status' = [upload_status EXCEPT
           ![id] = set_upload_status(status, IF status = "completed" THEN CloudFile(id)
                                             ELSE NoneDict)]
    /\ UNCHANGED <<temp_messages, user_conversations, lock_absorb, config, initialization, harness, local,
                   budget, history>>

\* the status record's TTL elapses, or delete_upload_status(id)
delete_upload_status(id) ==
    /\ upload_status[id] # NoneDict
    /\ upload_status' = [upload_status EXCEPT ![id] = NoneDict]
    /\ UNCHANGED <<temp_messages, user_conversations, lock_absorb, config, initialization, harness, local,
                   budget, history>>

\* a direct atomic_pop_messages(user_id, count) call: the Lua script runs as one step
atomic_pop(p, u, count) ==
    LET r == atomic_pop_messages(temp_messages[temp_messages_key(u)], count) IN
    /\ local[p].pc = "idle"
    /\ temp_messages' = [temp_messages EXCEPT ![temp_messages_key(u)] = r.rest]
    /\ head_removed' = [head_removed EXCEPT
           ![u] = @ + Len(temp_messages[temp_messages_key(u)]) - Len(r.rest)]
    /\ local' = [local EXCEPT ![p].pc = "popped", ![p].user_id = u, ![p].count = count,
                              ![p].removed = Timestamps(r.popped)]
    /\ UNCHANGED <<user_conversations, lock_absorb, upload_status, config, initialization, harness, budget,
                   dispatch_log, append_log, lock_expiries>>

\* the caller takes the popped messages
atomic_pop_return(p) ==
    /\ local[p].pc = "popped"
    /\ local' = [local EXCEPT ![p] = LocalInit]
    /\ UNCHANGED <<coordinator, config, initialization, harness, budget, history>>

\* the steps of add_message, for users US and caller inputs MS
Appends(p, US, MS) ==
    \/ \E u \in US, m \in MS, d \in BOOLEAN : add_message_rpush(p, u, m, d)
    \/ add_message_llen(p)
    \/ add_message_ltrim(p)

\* the steps of add_user_conversation
Conversations(p, US) ==
    \/ \E u \in US : add_conversation_rpush(p, u)
    \/ add_conversation_llen(p)
    \/ add_conversation_ltrim(p)

\* the caller's should_absorb_content, followed by absorb with its result
Checks(p, US) ==
    \/ \E u \in US : should_absorb(p, u)
    \/ should_absorb_return(p)
    \/ absorb_call_preview(p)

\* the steps of absorb_content_into_memory under the lock; OKS: whether the
\* dispatch returns (TRUE) or raises (FALSE)
AbsorbHolderSteps(p, OKS) ==
    \/ absorb_read(p)
    \/ absorb_resolve(p)
    \/ absorb_remove(p)
    \/ absorb_conv(p)
    \/ \E ok \in OKS : absorb_send(p, ok)
    \/ absorb_cleanup(p)
    \/ release_user_lock(p)

\* the steps of absorb_content_into_memory once it is entered
AbsorbSteps(p, OKS) ==
    \/ acquire_user_lock(p)
    \/ absorb_skip_return(p)
    \/ AbsorbHolderSteps(p, OKS)

\* absorb_content_into_memory without a preview, and the steps of every call
Absorbs(p, US, OKS) ==
    \/ \E u \in US : absorb_call_none(p, u)
    \/ AbsorbSteps(p, OKS)

\* direct atomic pops of up to redis_message_max_length messages
Pops(p, US) ==
    \/ \E u \in US, count \in 1..redis_message_max_length : atomic_pop(p, u, count)
    \/ atomic_pop_return(p)

\* the upload manager's worker and the status records' TTL
Uploads ==
    \/ \E id \in UploadIds, status \in {"completed", "failed"} : upload_finish(id, status)
    \/ \E id \in UploadIds : delete_upload_status(id)

TextOnly == {m \in FullMessages : m.image_uris = <<>>}

\* two pods against one user's queue
Next ==
    \/ \E p \in Pods : Appends(p, {"u1"}, TextOnly)
    \/ \E p \in Pods : Checks(p, {"u1"})
    \/ \E p \in Pods : Absorbs(p, {"u1"}, BOOLEAN)
    \/ lock_expire("u1")

Spec == Init /\ [][Next]_vars

\* ----------------------------------------------------------- two pods race
\* a serialized text-only message stamped ts, as add_message stores it
TextMessage(upload, ts) ==
    _serialize_message(ts, MessageData(upload, CHOOSE m \in TextOnly : TRUE, ts, TRUE))

\* n text-only messages stamped 1..n
TextQueue(upload, n) == [ts \in 1..n |-> TextMessage(upload, ts)]

\* more than threshold ready messages are queued for u1 and both pods have
\* entered absorb_content_into_memory, each with the preview should_absorb_content
\* gave it or with None
RaceInit ==
    /\ Untouched
    /\ needs_upload \in BOOLEAN
    /\ temporary_message_limit \in 1..(redis_message_max_length - 1)
    /\ \E n \in (temporary_message_limit + 1)..redis_message_max_length :
          /\ temp_messages = [u \in Users |->
                                IF u = "u1" THEN TextQueue(needs_upload, n) ELSE <<>>]
          /\ append_log = [u \in Users |-> IF u = "u1" THEN [ts \in 1..n |-> ts] ELSE <<>>]
          /\ next_ts = n + 1
    /\ user_conversations = [u \in Users |-> <<>>]
    /\ lock_absorb = [u \in Users |-> FALSE]
    /\ upload_status = [id \in UploadIds |-> NoneDict]
    /\ \E preview \in [Pods -> BOOLEAN] :
          local = [p \in Pods |->
                     [LocalInit EXCEPT
                        !.pc = "absorb_called", !.user_id = "u1",
                        !.has_preview = preview[p],
                        !.ready_messages =
                            IF preview[p]
                            THEN should_absorb_content(needs_upload, temporary_message_limit,
                                                       upload_status,
                                                       temp_messages[temp_messages_key("u1")])
                            ELSE <<>>]]
    /\ conv_count = 0
    /\ absorb_calls = Cardinality(Pods)
    /\ dispatch_log = <<>>
    /\ head_removed = [u \in Users |-> 0]
    /\ lock_expiries = [u \in Users |-> 0]

RaceNext == \E p \in Pods : AbsorbSteps(p, BOOLEAN)

SpecRace == RaceInit /\ [][RaceNext]_vars

\* ------------------------------------------------- readiness under uploads
\* an accumulator configured with a threshold of 1..TEMPORARY_MESSAGE_LIMIT
ReadyInit ==
    /\ Untouched
    /\ temp_messages = [u \in Users |-> <<>>]
    /\ user_conversations = [u \in Users |-> <<>>]
    /\ lock_absorb = [u \in Users |-> FALSE]
    /\ upload_status = [id \in UploadIds |-> NoneDict]
    /\ needs_upload \in BOOLEAN
    /\ temporary_message_limit \in 1..TEMPORARY_MESSAGE_LIMIT
    /\ local = [p \in Pods |-> LocalInit]
    /\ next_ts = 1
    /\ conv_count = 0
    /\ absorb_calls = 0
    /\ dispatch_log = <<>>
    /\ append_log = [u \in Users |-> <<>>]
    /\ head_removed = [u \in Users |-> 0]
    /\ lock_expiries = [u \in Users |-> 0]

\* pod p2 appends text and image messages for u1 while the uploads proceed; pod p1
\* checks readiness
ReadyNext ==
    \/ Appends("p2", {"u1"}, FullMessages)
    \/ should_absorb("p1", "u1")
    \/ should_absorb_return("p1")
    \/ Uploads

SpecReady == ReadyInit /\ [][ReadyNext]_vars

\* the message add_message queues for the caller's full_message, stamped ts, in
\* upload mode
QueuedMessage(full_message, ts) ==
    _serialize_message(ts, MessageData(TRUE, full_message, ts, TRUE))

\* an accumulator in upload mode; messages(u1) holds messages appended earlier, with
\* or without an image, and the upload of every image is pending
UnblockInit ==
    /\ Untouched
    /\ user_conversations = [u \in Users |-> <<>>]
    /\ lock_absorb = [u \in Users |-> FALSE]
    /\ needs_upload = TRUE
    /\ temporary_message_limit \in 1..TEMPORARY_MESSAGE_LIMIT
    /\ local = [p \in Pods |-> LocalInit]
    /\ conv_count = 0
    /\ absorb_calls = 0
    /\ dispatch_log = <<>>
    /\ head_removed = [u \in Users |-> 0]
    /\ lock_expiries = [u \in Users |-> 0]
    /\ \E n \in 1..redis_message_max_length : \E full \in [1..n -> FullMessages] :
          /\ temp_messages = [u \in Users |->
                 IF u = "u1" THEN [ts \in 1..n |-> QueuedMessage(full[ts], ts)] ELSE <<>>]
          /\ upload_status = [id \in UploadIds |->
                 IF \E ts \in 1..n : \E j \in 1..Len(full[ts].image_uris) :
                        id = upload_id_of(ts, j)
                 THEN set_upload_status("pending", NoneDict) ELSE NoneDict]
          /\ append_log = [u \in Users |-> IF u = "u1" THEN [ts \in 1..n |-> ts] ELSE <<>>]
          /\ next_ts = n + 1

\* pod p1 polls should_absorb_content for u1 while the uploads proceed
UnblockNext ==
    \/ should_absorb("p1", "u1")
    \/ should_absorb_return("p1")
    \/ Uploads

\* the caller keeps polling should_absorb_content; every upload reaches a terminal
\* status or its status record runs out of TTL
SpecUnblock ==
    /\ UnblockInit
    /\ [][UnblockNext]_vars
    /\ WF_vars(should_absorb("p1", "u1"))
    /\ WF_vars(should_absorb_return("p1"))
    /\ WF_vars(Uploads)


\* ------------------------------------------------------------- two users
\* the timestamps 1, 3, ... and 2, 4, ... up to n
OddUpTo(n) == [i \in 1..((n + 1) \div 2) |-> 2 * i - 1]
EvenUpTo(n) == [i \in 1..(n \div 2) |-> 2 * i]

\* all but the last of the text messages have been appended, in turn for u1 and
\* for u2, and all but the last conversation pair for u1; the threshold is 1
IsoInit ==
    /\ Untouched
    /\ needs_upload = FALSE
    /\ temporary_message_limit = 1
    /\ append_log = [u \in Users |-> IF u = "u1" THEN OddUpTo(MaxAppend - 1)
                                     ELSE EvenUpTo(MaxAppend - 1)]
    /\ temp_messages = [u \in Users |->
                          [i \in 1..Len(append_log[u]) |->
                              TextMessage(needs_upload, append_log[u][i])]]
    /\ next_ts = MaxAppend
    /\ user_conversations = [u \in Users |-> IF u = "u1" THEN [i \in 1..(MaxConv - 1) |-> i]
                                             ELSE <<>>]
    /\ lock_absorb = [u \in Users |-> FALSE]
    /\ upload_status = [id \in UploadIds |-> NoneDict]
    /\ local = [p \in Pods |-> LocalInit]
    /\ conv_count = MaxConv - 1
    /\ absorb_calls = 0
    /\ dispatch_log = <<>>
    /\ head_removed = [u \in Users |-> 0]
    /\ lock_expiries = [u \in Users |-> 0]

\* pod p1 appends, adds conversations, pops and checks, and both pods absorb, each
\* operation for either user; every dispatch succeeds
IsoNext ==
    \/ Appends("p1", Users, TextOnly)
    \/ Conversations("p1", Users)
    \/ Pops("p1", Users)
    \/ Checks("p1", Users)
    \/ \E p \in Pods : Absorbs(p, Users, {TRUE})

SpecIso == IsoInit /\ [][IsoNext]_vars

\* ---------------------------------------------------------------- capacity
\* both pods append messages and conversation pairs for u1; nothing is removed
CapNext ==
    \/ \E p \in Pods : Appends(p, {"u1"}, TextOnly)
    \/ \E p \in Pods : Conversations(p, {"u1"})

SpecCap == Init /\ [][CapNext]_vars

\* ------------------------------------------------------ initialization gate
lock_init_key(user_id) == user_id
user_init_done_key(user_id) == user_id

\* client.exists(key) > 0
is_user_initialized(done, user_id) == done[user_init_done_key(user_id)] # "absent"

\* a marking that drops a flag it finds set
SetnxDropping(value) == IF value = "absent" THEN "persistent" ELSE "absent"

\* the key after client.setnx(key, '1'): set, without a TTL, only if it was absent
Setnx(value) == IF value = "absent" THEN "persistent" ELSE value

\* the key after client.expire(key, ttl)
Expire(value) == IF value = "absent" THEN "absent" ELSE "expiring"

\* positions between a successful try_acquire_user_init_lock and release_user_init_lock
InitLocked == {"init_work", "init_mark", "init_expire", "init_track", "init_release"}
Initializing(u) == {p \in Pods : local[p].pc \in InitLocked /\ local[p].user_id = u}

\* a pod enters the gate for u: if is_user_initialized(user_id): return
init_check(p, u) ==
    /\ local[p].pc = "idle"
    /\ local' = [local EXCEPT
           ![p].pc = IF is_user_initialized(user_init_done, u) THEN "init_returned"
                     ELSE "init_try",
           ![p].user_id = u]
    /\ UNCHANGED <<coordinator, config, initialization, harness, budget, history>>

\* if not try_acquire_user_init_lock(user_id, timeout=30): return
try_acquire_user_init_lock(p) ==
    LET u == local[p].user_id IN
    /\ local[p].pc = "init_try"
    /\ IF SetNX(lock_init[lock_init_key(u)])
       THEN /\ lock_init' = [lock_init EXCEPT ![lock_init_key(u)] = TRUE]
            /\ local' = [local EXCEPT ![p].pc = "init_work"]
       ELSE /\ lock_init' = lock_init
            /\ local' = [local EXCEPT ![p].pc = "init_returned"]
    /\ UNCHANGED <<coordinator, config, user_init_done, initialization_count, init_work,
                   harness, budget, history>>

\* the initialization work itself
init_perform(p) ==
    /\ local[p].pc = "init_work"
    /\ init_work' = [init_work EXCEPT ![local[p].user_id] = @ + 1]
    /\ local' = [local EXCEPT ![p].pc = "init_mark"]
    /\ UNCHANGED <<coordinator, config, lock_init, user_init_done, initialization_count,
                   harness, budget, history>>

\* mark_user_initialized: if client.setnx(key, '1'):
mark_user_initialized(p) ==
    LET key == user_init_done_key(local[p].user_id) IN
    /\ local[p].pc = "init_mark"
    /\ user_init_done' = [user_init_done EXCEPT ![key] = Setnx(@)]
    /\ local' = [local EXCEPT
           ![p].setnx = (user_init_done[key] = "absent"),
           ![p].pc = IF user_init_done[key] = "absent" THEN "init_expire" ELSE "init_track"]
    /\ UNCHANGED <<coordinator, config, lock_init, initialization_count, init_work,
                   harness, budget, history>>

\* mark_user_initialized: client.expire(key, ttl)
mark_user_initialized_expire(p) ==
    LET key == user_init_done_key(local[p].user_id) IN
    /\ local[p].pc = "init_expire"
    /\ user_init_done' = [user_init_done EXCEPT ![key] = Expire(@)]
    /\ local' = [local EXCEPT ![p].pc = "init_track"]
    /\ UNCHANGED <<coordinator, config, lock_init, initialization_count, init_work,
                   harness, budget, history>>

\* initialization_count["count"] += 1
init_track(p) ==
    /\ local[p].pc = "init_track"
    /\ initialization_count' = [initialization_count EXCEPT ![local[p].user_id] = @ + 1]
    /\ local' = [local EXCEPT ![p].pc = "init_release"]
    /\ UNCHANGED <<coordinator, config, lock_init, user_init_done, init_work,
                   harness, budget, history>>

\* finally: release_user_init_lock(user_id) -- client.delete(key)
release_user_init_lock(p) ==
    /\ local[p].pc = "init_release"
    /\ lock_init' = [lock_init EXCEPT ![lock_init_key(local[p].user_id)] = FALSE]
    /\ local' = [local EXCEPT ![p].pc = "init_returned"]
    /\ UNCHANGED <<coordinator, config, user_init_done, initialization_count, init_work,
                   harness, budget, history>>

\* the 30 s TTL of mirix:lock:init:{user_id} elapses while a pod is initializing
init_lock_expire(u) ==
    /\ lock_init[lock_init_key(u)]
    /\ Initializing(u) # {}
    /\ lock_init' = [lock_init EXCEPT ![lock_init_key(u)] = FALSE]
    /\ UNCHANGED <<coordinator, config, user_init_done, initialization_count, init_work,
                   local, harness, budget, history>>

\* one run of the gate
Gate(p, US) ==
    \/ \E u \in US : init_check(p, u)
    \/ try_acquire_user_init_lock(p)
    \/ init_perform(p)
    \/ mark_user_initialized(p)
    \/ mark_user_initialized_expire(p)
    \/ init_track(p)
    \/ release_user_init_lock(p)

\* every pod runs the gate once, for a user nobody has seen before
GateNext ==
    \/ \E p \in Pods : Gate(p, Users)
    \/ \E u \in Users : init_lock_expire(u)

SpecGate == Init /\ [][GateNext]_vars

\* ------------------------------------------------ serialization round trip
\* image references as a producer holds them: a placeholder, a cloud file object and
\* two local paths
ImageRefs ==
    {[py |-> "dict", pending |-> TRUE, upload_uuid |-> upload_id_of(1, 1), filename |-> "img"],
     [py |-> "obj", uri |-> "gs://bucket/img", name |-> "files/img"],
     [py |-> "str", path |-> "img"],
     [py |-> "str", path |-> "img2"]}

ImageLists == UNION {[1..n -> ImageRefs] : n \in 0..MaxRefs}

\* the message_data dicts handed to _serialize_message; an absent key reads as None
MessageDatas ==
    {[image_uris |-> refs, sources |-> sources, audio_segments |-> audio, message |-> text] :
        refs \in ImageLists, sources \in {NoneList, <<"app">>},
        audio \in {NoneList, <<"segment">>}, text \in {"text", NoneStr}}

SerialInit ==
    /\ roundtrip \in {[pc |-> "message", timestamp |-> ts, message_data |-> m,
                       serialized |-> NoneDict, result |-> NoneDict] :
                          ts \in 1..MaxAppend, m \in MessageDatas}
    /\ lock_init = [u \in Users |-> FALSE]
    /\ user_init_done = [u \in Users |-> "absent"]
    /\ initialization_count = [u \in Users |-> 0]
    /\ init_work = [u \in Users |-> 0]
    /\ processed_counts = <<>>
    /\ fanout = NoneDict
    /\ build = NoneDict
    /\ deleted_files = {}
    /\ queue_ttl = NoneDict
    /\ status_log = NoneDict
    /\ status_read = NoneDict
    /\ rejected = <<>>
    /\ temp_messages = [u \in Users |-> <<>>]
    /\ user_conversations = [u \in Users |-> <<>>]
    /\ lock_absorb = [u \in Users |-> FALSE]
    /\ upload_status = [id \in UploadIds |-> NoneDict]
    /\ needs_upload = FALSE
    /\ temporary_message_limit = TEMPORARY_MESSAGE_LIMIT
    /\ local = [p \in Pods |-> LocalInit]
    /\ next_ts = 1
    /\ conv_count = 0
    /\ absorb_calls = 0
    /\ dispatch_log = <<>>
    /\ append_log = [u \in Users |-> <<>>]
    /\ head_removed = [u \in Users |-> 0]
    /\ lock_expiries = [u \in Users |-> 0]

\* serialized_data = _serialize_message(timestamp, message_data)
roundtrip_serialize ==
    /\ roundtrip.pc = "message"
    /\ roundtrip' = [roundtrip EXCEPT
           !.pc = "stored",
           !.serialized = _serialize_message(roundtrip.timestamp, roundtrip.message_data)]
    /\ UNCHANGED <<coordinator, config, initialization, processed_counts, fanout, build,
                   deleted_files, queue_ttl, status_log, status_read, rejected, local, budget,
                   history>>

\* (timestamp, message_data) = _deserialize_message(data)
roundtrip_deserialize ==
    /\ roundtrip.pc = "stored"
    /\ roundtrip' = [roundtrip EXCEPT
           !.pc = "loaded",
           !.result = _deserialize_message(roundtrip.serialized)]
    /\ UNCHANGED <<coordinator, config, initialization, processed_counts, fanout, build,
                   deleted_files, queue_ttl, status_log, status_read, rejected, local, budget,
                   history>>

SerialNext ==
    \/ roundtrip_serialize
    \/ roundtrip_deserialize

SpecSerial == SerialInit /\ [][SerialNext]_vars

\* ------------------------------------------------------- concurrent pops
\* up to MaxAppend text messages are queued for u1 and nobody holds anything
PopInit ==
    /\ Untouched
    /\ needs_upload = FALSE
    /\ temporary_message_limit = TEMPORARY_MESSAGE_LIMIT
    /\ \E n \in 0..MaxAppend :
          /\ temp_messages = [u \in Users |->
                                IF u = "u1" THEN TextQueue(needs_upload, n) ELSE <<>>]
          /\ append_log = [u \in Users |-> IF u = "u1" THEN [ts \in 1..n |-> ts] ELSE <<>>]
          /\ next_ts = n + 1
    /\ user_conversations = [u \in Users |-> <<>>]
    /\ lock_absorb = [u \in Users |-> FALSE]
    /\ upload_status = [id \in UploadIds |-> NoneDict]
    /\ local = [p \in Pods |-> LocalInit]
    /\ conv_count = 0
    /\ absorb_calls = 0
    /\ dispatch_log = <<>>
    /\ head_removed = [u \in Users |-> 0]
    /\ lock_expiries = [u \in Users |-> 0]

\* every pod calls atomic_pop_messages("u1", count) once and keeps what it got
PopNext ==
    \E p \in Pods, count \in 0..MaxPop : atomic_pop(p, "u1", count)

SpecPop == PopInit /\ [][PopNext]_vars

\* ------------------------------------------- multi-pod absorption simulation
\* the threshold of the simulated pods, and the position inside their try block
SimThreshold == TEMPORARY_MESSAGE_LIMIT
SimLocked == {"sim_count", "sim_pop", "sim_report", "sim_release"}

\* if acquire_user_lock(user_id, timeout=5):
sim_acquire(p, u) ==
    /\ local[p].pc = "idle"
    /\ IF SetNX(lock_absorb[lock_absorb_key(u)])
       THEN /\ lock_absorb' = [lock_absorb EXCEPT ![lock_absorb_key(u)] = TRUE]
            /\ local' = [local EXCEPT ![p].pc = "sim_count", ![p].user_id = u]
       ELSE /\ lock_absorb' = lock_absorb
            /\ local' = [local EXCEPT ![p].pc = "sim_skip", ![p].user_id = u]
    /\ UNCHANGED <<temp_messages, user_conversations, upload_status, config, initialization,
                   harness, budget, history>>

\* else: processed_counts.append(0)
sim_skip(p) ==
    /\ local[p].pc = "sim_skip"
    /\ processed_counts' = Append(processed_counts, 0)
    /\ local' = [local EXCEPT ![p].pc = "sim_done"]
    /\ UNCHANGED <<coordinator, config, initialization, roundtrip, fanout, build,
                   deleted_files, queue_ttl, status_log, status_read, rejected, budget, history>>

\* count = get_message_count_from_redis(user_id); if count >= 10:
sim_count(p) ==
    LET count == LLEN(temp_messages[temp_messages_key(local[p].user_id)]) IN
    /\ local[p].pc = "sim_count"
    /\ local' = [local EXCEPT
           ![p].current_len = count,
           ![p].pc = IF count >= SimThreshold THEN "sim_pop" ELSE "sim_release"]
    /\ UNCHANGED <<coordinator, config, initialization, harness, budget, history>>

\* messages = atomic_pop_messages(user_id, 10)
sim_pop(p) ==
    LET u == local[p].user_id
        r == atomic_pop_messages(temp_messages[temp_messages_key(u)], SimThreshold)
    IN  /\ local[p].pc = "sim_pop"
        /\ temp_messages' = [temp_messages EXCEPT ![temp_messages_key(u)] = r.rest]
        /\ head_removed' = [head_removed EXCEPT
               ![u] = @ + Len(temp_messages[temp_messages_key(u)]) - Len(r.rest)]
        /\ local' = [local EXCEPT ![p].pc = "sim_report", ![p].count = SimThreshold,
                                  ![p].removed = Timestamps(r.popped)]
        /\ UNCHANGED <<user_conversations, lock_absorb, upload_status, config,
                       initialization, harness, budget, dispatch_log, append_log,
                       lock_expiries>>

\* processed_counts.append(len(messages))
sim_report(p) ==
    /\ local[p].pc = "sim_report"
    /\ processed_counts' = Append(processed_counts, Len(local[p].removed))
    /\ local' = [local EXCEPT ![p].pc = "sim_release"]
    /\ UNCHANGED <<coordinator, config, initialization, roundtrip, fanout, build,
                   deleted_files, queue_ttl, status_log, status_read, rejected, budget, history>>

\* finally: release_user_lock(user_id)
sim_release(p) ==
    /\ local[p].pc = "sim_release"
    /\ lock_absorb' = [lock_absorb EXCEPT ![lock_absorb_key(local[p].user_id)] = FALSE]
    /\ local' = [local EXCEPT ![p].pc = "sim_done"]
    /\ UNCHANGED <<temp_messages, user_conversations, upload_status, config, initialization,
                   harness, budget, history>>

\* simulate_pod_absorption
Simulation(p, US) ==
    \/ \E u \in US : sim_acquire(p, u)
    \/ sim_skip(p)
    \/ sim_count(p)
    \/ sim_pop(p)
    \/ sim_report(p)
    \/ sim_release(p)

\* up to twice the threshold of text messages are queued for u1
SimInit ==
    /\ Untouched
    /\ needs_upload = FALSE
    /\ temporary_message_limit = TEMPORARY_MESSAGE_LIMIT
    /\ \E n \in 0..(2 * SimThreshold) :
          /\ temp_messages = [u \in Users |->
                                IF u = "u1" THEN TextQueue(needs_upload, n) ELSE <<>>]
          /\ append_log = [u \in Users |-> IF u = "u1" THEN [ts \in 1..n |-> ts] ELSE <<>>]
          /\ next_ts = n + 1
    /\ user_conversations = [u \in Users |-> <<>>]
    /\ lock_absorb = [u \in Users |-> FALSE]
    /\ upload_status = [id \in UploadIds |-> NoneDict]
    /\ local = [p \in Pods |-> LocalInit]
    /\ conv_count = 0
    /\ absorb_calls = 0
    /\ dispatch_log = <<>>
    /\ head_removed = [u \in Users |-> 0]
    /\ lock_expiries = [u \in Users |-> 0]

\* every pod runs simulate_pod_absorption for u1 once
SimNext == \E p \in Pods : Simulation(p, {"u1"})

SpecSim == SimInit /\ [][SimNext]_vars

\* ------------------------------------------------------------ stale locks
\* a pod stops for good between acquiring a lock and releasing it
pod_dies(p) ==
    /\ local[p].pc \in Locked \cup InitLocked
    /\ local' = [local EXCEPT
           ![p].pc = IF local[p].pc \in Locked THEN "dead_absorb" ELSE "dead_init"]
    /\ UNCHANGED <<coordinator, config, initialization, harness, budget, history>>

\* the lock of u is the one a dead pod left behind
StaleAbsorb(u) ==
    /\ lock_absorb[lock_absorb_key(u)]
    /\ \E p \in Pods : local[p].pc = "dead_absorb" /\ local[p].user_id = u
    /\ Absorbing(u) = {}
StaleInit(u) ==
    /\ lock_init[lock_init_key(u)]
    /\ \E p \in Pods : local[p].pc = "dead_init" /\ local[p].user_id = u
    /\ Initializing(u) = {}

\* a key whose TTL elapsed stays
KeyAfterTtlKept(exists) == exists

\* a key set with EX timeout, once the timeout has elapsed: absent
KeyAfterTtl(exists) == FALSE

\* the TTL of the lock a dead pod left behind elapses
absorb_lock_ttl(u) ==
    /\ StaleAbsorb(u)
    /\ lock_absorb' = [lock_absorb EXCEPT ![lock_absorb_key(u)] = KeyAfterTtl(@)]
    /\ lock_expiries' = [lock_expiries EXCEPT ![u] = @ + 1]
    /\ UNCHANGED <<temp_messages, user_conversations, upload_status, config, initialization,
                   harness, local, budget, dispatch_log, append_log, head_removed>>

init_lock_ttl(u) ==
    /\ StaleInit(u)
    /\ lock_init' = [lock_init EXCEPT ![lock_init_key(u)] = KeyAfterTtl(@)]
    /\ UNCHANGED <<coordinator, config, user_init_done, initialization_count, init_work,
                   local, harness, budget, history>>

\* pods absorb for u1 or run its initialization gate, and may die holding the lock
StaleNext ==
    \/ \E p \in Pods : Absorbs(p, {"u1"}, BOOLEAN)
    \/ \E p \in Pods : Gate(p, {"u1"})
    \/ \E p \in Pods : pod_dies(p)
    \/ absorb_lock_ttl("u1")
    \/ init_lock_ttl("u1")

\* the coordinator expires every key whose TTL has elapsed
SpecStale ==
    /\ Init
    /\ [][StaleNext]_vars
    /\ WF_vars(absorb_lock_ttl("u1"))
    /\ WF_vars(init_lock_ttl("u1"))

\* -------------------------------------------------------- coordinator faults
\* the positions of the try body whose coordinator call is not guarded by an except
FaultPoints == {"absorb_read", "absorb_remove", "absorb_conv", "absorb_cleanup"}

\* the coordinator call at the pod's position raises before it takes effect
absorb_fault(p) ==
    /\ local[p].pc \in FaultPoints
    /\ local' = [local EXCEPT ![p].pc = OnRaise(local[p].pc), ![p].exception = "coordinator"]
    /\ UNCHANGED <<coordinator, config, initialization, harness, budget, history>>

\* finally: release_user_lock(user_id) -- client.delete(key) raises, and absorb with it
release_user_lock_fault(p) ==
    /\ local[p].pc = "absorb_release"
    /\ local' = [local EXCEPT ![p] = LocalInit]
    /\ UNCHANGED <<coordinator, config, initialization, harness, budget, history>>

\* two pods append and absorb for u1 against a coordinator whose calls may fail
FaultNext ==
    \/ Appends("p1", {"u1"}, TextOnly)
    \/ \E p \in Pods : Absorbs(p, {"u1"}, BOOLEAN)
    \/ \E p \in Pods : absorb_fault(p)
    \/ \E p \in Pods : release_user_lock_fault(p)
    \/ lock_expire("u1")

SpecFault == Init /\ [][FaultNext]_vars

\* -------------------------------------------------------- direct dispatch
\* nothing is queued, locked or running
IdleStore ==
    /\ lock_init = [u \in Users |-> FALSE]
    /\ user_init_done = [u \in Users |-> "absent"]
    /\ initialization_count = [u \in Users |-> 0]
    /\ init_work = [u \in Users |-> 0]
    /\ temp_messages = [u \in Users |-> <<>>]
    /\ user_conversations = [u \in Users |-> <<>>]
    /\ lock_absorb = [u \in Users |-> FALSE]
    /\ upload_status = [id \in UploadIds |-> NoneDict]
    /\ needs_upload = FALSE
    /\ temporary_message_limit = TEMPORARY_MESSAGE_LIMIT
    /\ local = [p \in Pods |-> LocalInit]
    /\ next_ts = 1
    /\ conv_count = 0
    /\ absorb_calls = 0
    /\ dispatch_log = <<>>
    /\ append_log = [u \in Users |-> <<>>]
    /\ head_removed = [u \in Users |-> 0]
    /\ lock_expiries = [u \in Users |-> 0]

memory_agent_types ==
    {"episodic_memory", "procedural_memory", "knowledge_vault", "semantic_memory",
     "core_memory", "resource_memory"}

\* _send_to_memory_agents_separately is entered with one payload
DispatchInit ==
    /\ IdleStore
    /\ fanout = [pc |-> "submit",
                 worker |-> [a \in memory_agent_types |-> "unsubmitted"],
                 sends |-> [a \in memory_agent_types |-> 0],
                 collected |-> {},
                 exception |-> FALSE]
    /\ roundtrip = NoneDict
    /\ processed_counts = <<>>
    /\ build = NoneDict
    /\ deleted_files = {}
    /\ queue_ttl = NoneDict
    /\ status_log = NoneDict
    /\ status_read = NoneDict
    /\ rejected = <<>>

\* pool.submit(self.message_queue.send_message_in_queue, ..., payloads, agent_type)
fanout_submit(a) ==
    /\ fanout.pc = "submit"
    /\ fanout.worker[a] = "unsubmitted"
    /\ fanout' = [fanout EXCEPT
           !.worker[a] = "running",
           !.sends[a] = @ + 1,
           !.pc = IF \A b \in memory_agent_types \ {a} : fanout.worker[b] # "unsubmitted"
                  THEN "collect" ELSE "submit"]
    /\ UNCHANGED <<coordinator, config, initialization, roundtrip, processed_counts, build,
                   deleted_files, queue_ttl, status_log, status_read, rejected, local, budget, history>>

\* agent.handle(prompt_parts, batch_metadata, user_id) -> result | error: an agent's
\* error is logged and handed back as the worker's response
AgentOutcomes == {"result", "error"}

\* the worker's send_message_in_queue call returns its response
worker_terminate(a, outcome) ==
    /\ fanout.worker[a] = "running"
    /\ fanout' = [fanout EXCEPT !.worker[a] = outcome]
    /\ UNCHANGED <<coordinator, config, initialization, roundtrip, processed_counts, build,
                   deleted_files, queue_ttl, status_log, status_read, rejected, local, budget, history>>

\* where the collecting loop stands after the future of agent a was taken
NextFutureFirstOnly(a) ==
    "shutdown"

NextFuture(a) ==
    IF fanout.worker[a] = "raised" \/ fanout.collected \cup {a} = memory_agent_types
    THEN "shutdown" ELSE "collect"

\* for future in as_completed(futures): response, agent_type = future.result();
\* responses.append(response)
fanout_result(a) ==
    /\ fanout.pc = "collect"
    /\ fanout.worker[a] \in AgentOutcomes \cup {"raised"}
    /\ a \notin fanout.collected
    /\ fanout' = [fanout EXCEPT
           !.collected = IF fanout.worker[a] = "raised" THEN @ ELSE @ \cup {a},
           !.exception = (fanout.worker[a] = "raised"),
           !.pc = NextFuture(a)]
    /\ UNCHANGED <<coordinator, config, initialization, roundtrip, processed_counts, build,
                   deleted_files, queue_ttl, status_log, status_read, rejected, local, budget, history>>

\* the with block is left: ThreadPoolExecutor.shutdown(wait=True), then the return or
\* the pending exception
fanout_shutdown ==
    /\ fanout.pc = "shutdown"
    /\ \A a \in memory_agent_types : fanout.worker[a] # "running"
    /\ fanout' = [fanout EXCEPT !.pc = "done"]
    /\ UNCHANGED <<coordinator, config, initialization, roundtrip, processed_counts, build,
                   deleted_files, queue_ttl, status_log, status_read, rejected, local, budget, history>>

DispatchNext ==
    \/ \E a \in memory_agent_types : fanout_submit(a)
    \/ \E a \in memory_agent_types, outcome \in AgentOutcomes :
          worker_terminate(a, outcome)
    \/ \E a \in memory_agent_types : fanout_result(a)
    \/ fanout_shutdown

SpecDispatch == DispatchInit /\ [][DispatchNext]_vars

\* ------------------------------------------------- upload status records
\* set / delete / expiry operations on upload status records in one run
MaxStatusOps == 3

StatusIds == {upload_id_of(1, 1), upload_id_of(2, 1)}

\* status: Upload status ('pending', 'completed', 'failed')
Statuses == {"pending", "completed", "failed"}

StatusOps == Len(status_log[upload_id_of(1, 1)]) + Len(status_log[upload_id_of(2, 1)])

StatusInit ==
    /\ IdleStore
    /\ roundtrip = NoneDict
    /\ processed_counts = <<>>
    /\ fanout = NoneDict
    /\ build = NoneDict
    /\ deleted_files = {}
    /\ queue_ttl = NoneDict
    /\ status_log = [id \in StatusIds |-> <<>>]
    /\ status_read = NoneDict
    /\ rejected = <<>>

\* SET that leaves an existing key as it is
SetexIfAbsent(old, new) == IF old = NoneDict THEN new ELSE old

\* client.setex(key, ttl, json.dumps(data)): the value of the key afterwards
Setex(old, new) == new

\* set_upload_status(upload_id, status, result) called on pod p
set_upload_status_call(p, id, status) ==
    /\ StatusOps < MaxStatusOps
    /\ upload_status' = [upload_status EXCEPT
           ![id] = Setex(@, set_upload_status(status, IF status = "completed" THEN CloudFile(id)
                                                       ELSE NoneDict))]
    /\ status_log' = [status_log EXCEPT ![id] = Append(@, [op |-> "set", status |-> status, pod |-> p])]
    /\ UNCHANGED <<temp_messages, user_conversations, lock_absorb, config, initialization,
                   roundtrip, processed_counts, fanout, build, deleted_files, queue_ttl,
                   status_read, rejected, local, budget, history>>

\* get_upload_status(upload_id) called on pod p
get_upload_status_call(p, id) ==
    /\ status_read' = [pod |-> p, upload_id |-> id, at |-> StatusOps,
                       ret |-> get_upload_status(upload_status[id])]
    /\ UNCHANGED <<coordinator, config, initialization, roundtrip, processed_counts, fanout,
                   build, deleted_files, queue_ttl, status_log, rejected, local, budget, history>>

\* delete_upload_status(upload_id) called on pod p: client.delete(key)
delete_upload_status_call(p, id) ==
    /\ StatusOps < MaxStatusOps
    /\ upload_status' = [upload_status EXCEPT ![id] = NoneDict]
    /\ status_log' = [status_log EXCEPT ![id] = Append(@, [op |-> "delete", status |-> NoneStr, pod |-> p])]
    /\ UNCHANGED <<temp_messages, user_conversations, lock_absorb, config, initialization,
                   roundtrip, processed_counts, fanout, build, deleted_files, queue_ttl,
                   status_read, rejected, local, budget, history>>

\* the ttl handed to setex elapses
upload_status_ttl(id) ==
    /\ StatusOps < MaxStatusOps
    /\ upload_status[id] # NoneDict
    /\ upload_status' = [upload_status EXCEPT ![id] = NoneDict]
    /\ status_log' = [status_log EXCEPT ![id] = Append(@, [op |-> "expire", status |-> NoneStr, pod |-> NoneStr])]
    /\ UNCHANGED <<temp_messages, user_conversations, lock_absorb, config, initialization,
                   roundtrip, processed_counts, fanout, build, deleted_files, queue_ttl,
                   status_read, rejected, local, budget, history>>

StatusNext ==
    \/ \E p \in Pods, id \in StatusIds, status \in Statuses : set_upload_status_call(p, id, status)
    \/ \E p \in Pods, id \in StatusIds : get_upload_status_call(p, id)
    \/ \E p \in Pods, id \in StatusIds : delete_upload_status_call(p, id)
    \/ \E id \in StatusIds : upload_status_ttl(id)

SpecStatus == StatusInit /\ [][StatusNext]_vars

\* ------------------------------------------------------- prompt assembly
\* one element of message_parts: text parts carry a role (which text it is), image
\* parts the uri or path they were built from
Part(type, role, source, timestamp, uri, text) ==
    [type |-> type, role |-> role, source |-> source, timestamp |-> timestamp,
     uri |-> uri, text |-> text]

\* the (source, timestamp, file_ref) entries one item adds to images_by_source
ItemImages(item) ==
    IF ~Truthy(item.image_uris) THEN <<>>
    ELSE IF Truthy(item.sources) /\ Len(item.sources) = Len(item.image_uris)
    THEN [i \in 1..Len(item.image_uris) |->
             [source |-> item.sources[i], timestamp |-> item.timestamp,
              file_ref |-> item.image_uris[i]]]
    ELSE [i \in 1..Len(item.image_uris) |->
             [source |-> "Screenshots", timestamp |-> item.timestamp,
              file_ref |-> item.image_uris[i]]]

RECURSIVE AllImages(_)
AllImages(ready_to_process) ==
    IF ready_to_process = <<>> THEN <<>>
    ELSE ItemImages(Head(ready_to_process)) \o AllImages(Tail(ready_to_process))

\* the keys of images_by_source in insertion order
RECURSIVE SourceNames(_, _)
SourceNames(images, seen) ==
    IF images = <<>> THEN <<>>
    ELSE IF Head(images).source \in seen THEN SourceNames(Tail(images), seen)
    ELSE <<Head(images).source>> \o SourceNames(Tail(images), seen \cup {Head(images).source})

\* the "Timestamp: ..." part and the image part of every image of one source
RECURSIVE SourceImages(_, _)
SourceImages(images, source_name) ==
    IF images = <<>> THEN <<>>
    ELSE LET image == Head(images)
             file_ref == image.file_ref
             two == IF HasUriAttr(file_ref) \/ (file_ref.py = "dict" /\ "uri" \in DOMAIN file_ref)
                    THEN <<Part("text", "timestamp", NoneStr, image.timestamp, 0, NoneStr),
                           Part("google_cloud_file_uri", "image", NoneStr, image.timestamp,
                                file_ref.uri, NoneStr)>>
                    ELSE <<Part("text", "timestamp", NoneStr, image.timestamp, 0, NoneStr),
                           Part("image_data", "image", NoneStr, image.timestamp, 0,
                                IF "path" \in DOMAIN file_ref THEN file_ref.path ELSE NoneStr)>>
         IN  (IF image.source = source_name THEN two ELSE <<>>)
                 \o SourceImages(Tail(images), source_name)

RECURSIVE SourceBlocks(_, _)
SourceBlocks(images, source_names) ==
    IF source_names = <<>> THEN <<>>
    ELSE <<Part("text", "source_header", Head(source_names), 0, 0, NoneStr)>>
             \o SourceImages(images, Head(source_names))
             \o SourceBlocks(images, Tail(source_names))

RECURSIVE TextContent(_)
TextContent(ready_to_process) ==
    IF ready_to_process = <<>> THEN <<>>
    ELSE LET item == Head(ready_to_process) IN
         (IF item.message # NoneStr /\ item.message # ""
          THEN <<Part("text", "text", NoneStr, item.timestamp, 0, item.message)>>
          ELSE <<>>) \o TextContent(Tail(ready_to_process))

\* _build_memory_message(ready_to_process, voice_content) with no voice content;
\* images are taken to be encodable
_build_memory_message(ready_to_process) ==
    LET images == AllImages(ready_to_process)
        text_content == TextContent(ready_to_process)
    IN  (IF images # <<>>
         THEN <<Part("text", "screenshots_intro", NoneStr, 0, 0, NoneStr)>>
                  \o SourceBlocks(images, SourceNames(images, {}))
         ELSE <<>>)
        \o (IF text_content # <<>>
            THEN <<Part("text", "text_intro", NoneStr, 0, 0, NoneStr)>> \o text_content
            ELSE <<>>)

\* images of the message whose prompt is assembled
MaxBuildImages == 2

BuildSources == {"chrome", "slack"}

\* the outcomes of an upload: no record, still pending, failed, completed
UploadOutcomes == {"unknown", "pending", "failed", "completed"}

BuildRecord(outcome, id) ==
    IF outcome = "unknown" THEN NoneDict
    ELSE set_upload_status(outcome, IF outcome = "completed" THEN CloudFile(id) ELSE NoneDict)

\* one message with images and source labels was appended in upload mode; its
\* uploads have had their outcomes
BuildInit ==
    /\ IdleStore
    /\ build \in
         {[pc |-> "read",
           all_messages |-> get_messages_from_redis(
               <<_serialize_message(1,
                   MessageData(TRUE,
                       [message |-> text,
                        image_uris |-> [j \in 1..n |-> [py |-> "str", path |-> "img"]],
                        sources |-> sources, voice_files |-> <<>>],
                       1, TRUE))>>, 0),
           outcomes |-> outcomes,
           ready_to_process |-> <<>>,
           pending_items |-> <<>>,
           message_parts |-> <<>>] :
              n \in 1..MaxBuildImages, text \in {"text", NoneStr},
              sources \in UNION {[1..k -> BuildSources] : k \in 1..MaxBuildImages},
              outcomes \in [1..MaxBuildImages -> UploadOutcomes]}
    /\ Len(build.all_messages[1].sources) = Len(build.all_messages[1].image_uris)
    /\ roundtrip = NoneDict
    /\ processed_counts = <<>>
    /\ fanout = NoneDict
    /\ deleted_files = {}
    /\ queue_ttl = NoneDict
    /\ status_log = NoneDict
    /\ status_read = NoneDict
    /\ rejected = <<>>

\* the status records of the uploads of message 1
BuildStatuses ==
    [id \in {upload_id_of(1, j) : j \in 1..MaxBuildImages} |->
        BuildRecord(build.outcomes[CHOOSE j \in 1..MaxBuildImages : id = upload_id_of(1, j)], id)]

\* absorb_content_into_memory: the split into ready_to_process and pending_items
build_resolve ==
    /\ build.pc = "read"
    /\ LET w == AbsorbWalk(TRUE, BuildStatuses, build.all_messages, 1, <<>>, <<>>)
       IN  build' = [build EXCEPT !.pc = "resolved",
                                  !.ready_to_process = w.ready_to_process,
                                  !.pending_items = w.pending_items]
    /\ UNCHANGED <<coordinator, config, initialization, roundtrip, processed_counts, fanout,
                   deleted_files, queue_ttl, status_log, status_read, rejected, local, budget,
                   history>>

\* message = self._build_memory_message(ready_to_process, voice_content)
build_message ==
    /\ build.pc = "resolved"
    /\ build' = [build EXCEPT !.pc = "built",
                              !.message_parts = _build_memory_message(build.ready_to_process)]
    /\ UNCHANGED <<coordinator, config, initialization, roundtrip, processed_counts, fanout,
                   deleted_files, queue_ttl, status_log, status_read, rejected, local, budget,
                   history>>

BuildNext ==
    \/ build_resolve
    \/ build_message

SpecBuild == BuildInit /\ [][BuildNext]_vars

\* ------------------------------------------- prompt assembly: text messages
\* messages of one batch, and the timestamps their producers may give them
MaxTextBatch == 3
MaxStamp == 3

\* add_message(full_message, timestamp, user_id): the timestamp is the caller's
ProducerMessage(timestamp, text) ==
    _serialize_message(timestamp,
        MessageData(TRUE,
            [message |-> text, image_uris |-> <<>>, sources |-> <<>>, voice_files |-> <<>>],
            timestamp, TRUE))

\* a batch of messages without images was appended, each with the timestamp and
\* the text its producer gave it
TextInit ==
    /\ IdleStore
    /\ build \in
         {[pc |-> "read",
           all_messages |-> get_messages_from_redis(
               [i \in 1..k |-> ProducerMessage(stamps[i], texts[i])], 0),
           outcomes |-> [j \in 1..MaxBuildImages |-> "unknown"],
           ready_to_process |-> <<>>,
           pending_items |-> <<>>,
           message_parts |-> <<>>] :
              k \in 1..MaxTextBatch,
              stamps \in [1..MaxTextBatch -> 1..MaxStamp],
              texts \in [1..MaxTextBatch -> {"text", NoneStr}]}
    /\ roundtrip = NoneDict
    /\ processed_counts = <<>>
    /\ fanout = NoneDict
    /\ deleted_files = {}
    /\ queue_ttl = NoneDict
    /\ status_log = NoneDict
    /\ status_read = NoneDict
    /\ rejected = <<>>

SpecText == TextInit /\ [][BuildNext]_vars

\* ------------------------------------------------------ local image files
\* what callers hand to add_message without uploads: a screenshot the caller wants
\* kept and one it gives up
CleanupMessages ==
    {[message |-> "text", image_uris |-> <<[py |-> "str", path |-> path]>>,
      sources |-> <<"app">>, voice_files |-> <<>>] : path \in {"kept.png", "temporary.png"}}

\* the delete_after_upload argument the caller passes with the message
AppendedFlag(full_message) == full_message.image_uris[1].path = "temporary.png"

CleanupInit == Init /\ ~needs_upload

\* one pod appends screenshots for u1, both absorb
CleanupNext ==
    \/ \E m \in CleanupMessages : add_message_rpush("p1", "u1", m, AppendedFlag(m))
    \/ add_message_llen("p1")
    \/ add_message_ltrim("p1")
    \/ \E p \in Pods : Absorbs(p, {"u1"}, BOOLEAN)

SpecCleanup == CleanupInit /\ [][CleanupNext]_vars

\* ------------------------------------------------------------- validation
\* calls with a null id in one run
MaxRejected == 1

\* the store functions and accumulator methods that take a user_id
UserIdOps ==
    {"add_message_to_redis", "get_messages_from_redis", "remove_messages_from_redis",
     "get_message_count_from_redis", "add_conversation_to_redis",
     "get_conversations_from_redis", "clear_conversations_from_redis",
     "get_conversation_count_from_redis", "acquire_user_lock", "release_user_lock",
     "atomic_pop_messages", "check_user_lock_exists", "try_acquire_user_init_lock",
     "release_user_init_lock", "is_user_initialized", "mark_user_initialized",
     "reset_user_initialization", "add_message", "add_user_conversation",
     "should_absorb_content", "get_recent_images_for_chat", "absorb_content_into_memory",
     "get_message_count", "get_upload_status_summary"}

\* the store functions that take an upload_id
UploadIdOps == {"set_upload_status", "get_upload_status", "delete_upload_status"}

\* a check placed after client = get_redis_client() and the command
ValidateAfterClient(id) ==
    IF id = NoneStr THEN [raised |-> "ValueError", client |-> TRUE]
    ELSE [raised |-> NoneStr, client |-> TRUE]

\* if user_id is None: raise ValueError(...), the first statement of every one of
\* these functions; client: whether the coordinator client was reached
Validate(id) ==
    IF id = NoneStr THEN [raised |-> "ValueError", client |-> FALSE]
    ELSE [raised |-> NoneStr, client |-> TRUE]

\* pod p calls op with user_id (resp. upload_id) None
null_id_call(p, op) ==
    /\ Len(rejected) < MaxRejected
    /\ Validate(NoneStr).raised = "ValueError"
    /\ rejected' = Append(rejected, [pod |-> p, op |-> op, outcome |-> Validate(NoneStr)])
    /\ UNCHANGED <<coordinator, config, initialization, roundtrip, processed_counts, fanout,
                   build, deleted_files, queue_ttl, status_log, status_read, local, budget,
                   history>>

\* one pod appends and absorbs for u1 while null-id calls arrive from the other
ValidNext ==
    \/ Appends("p1", {"u1"}, TextOnly)
    \/ absorb_call_none("p1", "u1")
    \/ acquire_user_lock("p1")
    \/ AbsorbHolderSteps("p1", {TRUE})
    \/ \E op \in UserIdOps \cup UploadIdOps : null_id_call("p2", op)

SpecValid == Init /\ [][ValidNext]_vars

\* --------------------------------------------------------------- key TTLs
\* settings.redis_message_ttl and settings.redis_conversation_ttl, in clock periods
\* (the conversation TTL is the shorter one)
redis_message_ttl == 3
redis_conversation_ttl == 2
\* clock periods that pass in one run
MaxTicks == 1

\* a key without TTL
NoTtl == -1

\* u1's queues may exist from earlier appends, each with what is left of its TTL
TtlInit ==
    /\ lock_init = [u \in Users |-> FALSE]
    /\ user_init_done = [u \in Users |-> "absent"]
    /\ initialization_count = [u \in Users |-> 0]
    /\ init_work = [u \in Users |-> 0]
    /\ lock_absorb = [u \in Users |-> FALSE]
    /\ upload_status = [id \in UploadIds |-> NoneDict]
    /\ needs_upload = FALSE
    /\ temporary_message_limit = TEMPORARY_MESSAGE_LIMIT
    /\ local = [p \in Pods |-> LocalInit]
    /\ absorb_calls = 0
    /\ dispatch_log = <<>>
    /\ head_removed = [u \in Users |-> 0]
    /\ lock_expiries = [u \in Users |-> 0]
    /\ \E n \in 0..1, c \in 0..1, dm \in 1..redis_message_ttl, dc \in 1..redis_conversation_ttl :
          /\ temp_messages = [u \in Users |-> IF u = "u1" THEN TextQueue(FALSE, n) ELSE <<>>]
          /\ append_log = [u \in Users |-> IF u = "u1" THEN [ts \in 1..n |-> ts] ELSE <<>>]
          /\ next_ts = n + 1
          /\ user_conversations = [u \in Users |-> IF u = "u1" THEN [i \in 1..c |-> i] ELSE <<>>]
          /\ conv_count = c
          /\ queue_ttl = [now |-> 0,
                          temp_messages |-> IF n > 0 THEN dm ELSE NoTtl,
                          user_conversations |-> IF c > 0 THEN dc ELSE NoTtl,
                          called_at |-> [p \in Pods |-> 0]]
    /\ roundtrip = NoneDict
    /\ processed_counts = <<>>
    /\ fanout = NoneDict
    /\ build = NoneDict
    /\ deleted_files = {}
    /\ status_log = NoneDict
    /\ status_read = NoneDict
    /\ rejected = <<>>

\* add_message -> add_message_to_redis: client.rpush(key, serialized_data); a key the
\* push creates has no TTL, an existing key keeps the one it has
add_message_to_redis_rpush(p, u, full_message) ==
    /\ local[p].pc = "idle"
    /\ next_ts <= MaxAppend
    /\ temp_messages' = [temp_messages EXCEPT
           ![temp_messages_key(u)] =
               RPUSH(@, _serialize_message(next_ts, MessageData(needs_upload, full_message, next_ts, TRUE)))]
    /\ append_log' = [append_log EXCEPT ![u] = Append(@, next_ts)]
    /\ next_ts' = next_ts + 1
    /\ queue_ttl' = [queue_ttl EXCEPT !.called_at[p] = queue_ttl.now]
    /\ local' = [local EXCEPT ![p].pc = "add_expire", ![p].user_id = u]
    /\ UNCHANGED <<user_conversations, lock_absorb, upload_status, config, initialization,
                   roundtrip, processed_counts, fanout, build, deleted_files, status_log,
                   status_read, rejected, conv_count, absorb_calls, dispatch_log, head_removed,
                   lock_expiries>>

\* client.expire(key, settings.redis_message_ttl): no effect on a key that is gone
add_message_to_redis_expire(p) ==
    /\ local[p].pc = "add_expire"
    /\ queue_ttl' = [queue_ttl EXCEPT
           !.temp_messages = IF temp_messages[temp_messages_key(local[p].user_id)] # <<>>
                             THEN queue_ttl.now + redis_message_ttl ELSE @]
    /\ local' = [local EXCEPT ![p].pc = "add_llen"]
    /\ UNCHANGED <<coordinator, config, initialization, roundtrip, processed_counts, fanout,
                   build, deleted_files, status_log, status_read, rejected, budget, history>>

\* add_user_conversation -> add_conversation_to_redis: client.rpush(key, ...)
add_conversation_to_redis_rpush(p, u) ==
    /\ local[p].pc = "idle"
    /\ conv_count < MaxConv
    /\ conv_count' = conv_count + 1
    /\ user_conversations' = [user_conversations EXCEPT
           ![user_conversations_key(u)] = RPUSH(@, conv_count + 1)]
    /\ queue_ttl' = [queue_ttl EXCEPT !.called_at[p] = queue_ttl.now]
    /\ local' = [local EXCEPT ![p].pc = "conv_expire", ![p].user_id = u]
    /\ UNCHANGED <<temp_messages, lock_absorb, upload_status, config, initialization,
                   roundtrip, processed_counts, fanout, build, deleted_files, status_log,
                   status_read, rejected, next_ts, absorb_calls, history>>

\* client.expire(key, settings.redis_conversation_ttl)
add_conversation_to_redis_expire(p) ==
    /\ local[p].pc = "conv_expire"
    /\ queue_ttl' = [queue_ttl EXCEPT
           !.user_conversations =
               IF user_conversations[user_conversations_key(local[p].user_id)] # <<>>
               THEN queue_ttl.now + redis_conversation_ttl ELSE @]
    /\ local' = [local EXCEPT ![p].pc = "conv_llen"]
    /\ UNCHANGED <<coordinator, config, initialization, roundtrip, processed_counts, fanout,
                   build, deleted_files, status_log, status_read, rejected, budget, history>>

\* a clock period passes; the coordinator deletes the keys whose TTL has run out
key_ttl_elapses ==
    LET now == queue_ttl.now + 1
        messages_gone == queue_ttl.temp_messages # NoTtl /\ queue_ttl.temp_messages <= now
        conversations_gone ==
            queue_ttl.user_conversations # NoTtl /\ queue_ttl.user_conversations <= now
    IN  /\ queue_ttl.now < MaxTicks
        /\ temp_messages' = [temp_messages EXCEPT
               ![temp_messages_key("u1")] = IF messages_gone THEN <<>> ELSE @]
        /\ user_conversations' = [user_conversations EXCEPT
               ![user_conversations_key("u1")] = IF conversations_gone THEN <<>> ELSE @]
        /\ queue_ttl' = [queue_ttl EXCEPT
               !.now = now,
               !.temp_messages = IF messages_gone THEN NoTtl ELSE @,
               !.user_conversations = IF conversations_gone THEN NoTtl ELSE @]
        /\ UNCHANGED <<lock_absorb, upload_status, config, initialization, roundtrip,
                       processed_counts, fanout, build, deleted_files, status_log, status_read,
                       rejected, local, budget, history>>

\* the pods append messages and conversations for u1 while time passes
TtlNext ==
    \/ \E p \in Pods, m \in TextOnly : add_message_to_redis_rpush(p, "u1", m)
    \/ \E p \in Pods : add_message_to_redis_expire(p)
    \/ \E p \in Pods : add_message_llen(p)
    \/ \E p \in Pods : add_message_ltrim(p)
    \/ \E p \in Pods : add_conversation_to_redis_rpush(p, "u1")
    \/ \E p \in Pods : add_conversation_to_redis_expire(p)
    \/ \E p \in Pods : add_conversation_llen(p)
    \/ \E p \in Pods : add_conversation_ltrim(p)
    \/ key_ttl_elapses

SpecTtl == TtlInit /\ [][TtlNext]_vars

\* ----------------------------------------------- conversations and absorb
\* p1 appends messages and conversation pairs for u1 while both pods absorb
ConvNext ==
    \/ Appends("p1", {"u1"}, TextOnly)
    \/ Conversations("p1", {"u1"})
    \/ \E p \in Pods : Absorbs(p, {"u1"}, BOOLEAN)

SpecConv == Init /\ [][ConvNext]_vars

\* ------------------------------------------- absorb without a preview
\* pod p2 appends text and image messages for u1 while the uploads proceed; pod p1
\* absorbs without a preview
WalkNext ==
    \/ Appends("p2", {"u1"}, FullMessages)
    \/ Uploads
    \/ absorb_call_none("p1", "u1")
    \/ acquire_user_lock("p1")
    \/ AbsorbHolderSteps("p1", {TRUE})

SpecWalk == ReadyInit /\ [][WalkNext]_vars

\* ------------------------------------------------- properties: dispatch
\* how often the message stamped ts occurs in the batches handed to the Dispatcher
RECURSIVE Occurrences(_, _)
Occurrences(seq, x) ==
    IF seq = <<>> THEN 0
    ELSE (IF Head(seq) = x THEN 1 ELSE 0) + Occurrences(Tail(seq), x)

RECURSIVE DispatchCount(_, _)
DispatchCount(log, ts) ==
    IF log = <<>> THEN 0
    ELSE Occurrences(Head(log).batch, ts) + DispatchCount(Tail(log), ts)

\* positions of absorb after the removal from the head of the queue
AfterRemove == {"absorb_conv", "absorb_send", "absorb_cleanup", "absorb_release"}

\* C1: under any interleaving of concurrent absorb calls for one user, with or
\* without a preview taken before the lock, no queued message is handed to the
\* Dispatcher more than once.
C1_AtMostOnceDispatch ==
    \A ts \in 1..MaxAppend : DispatchCount(dispatch_log, ts) <= 1

\* C2: the messages an absorb call removes from the head of the queue are exactly
\* the batch it dispatches.
C2_RemovedIsDispatched ==
    \A p \in Pods :
        local[p].pc \in AfterRemove =>
            local[p].removed = Timestamps(local[p].ready_to_process)

\* C3 as stated: at any instant at most one pod is between a successful
\* acquire_user_lock(u) and its release_user_lock(u).
C3_MutualExclusion ==
    \A u \in Users : Cardinality(Absorbing(u)) <= 1

\* C3: the pods between a successful acquire_user_lock(u) and their
\* release_user_lock(u) never outnumber the TTL expiries of the lock of u, plus one
\* when the lock key exists; with no expiry there is at most one such pod.
C3_HoldersBoundedByExpiries ==
    \A u \in Users :
        Cardinality(Absorbing(u)) <=
            lock_expiries[u] + (IF lock_absorb[lock_absorb_key(u)] THEN 1 ELSE 0)

\* one pod is inside absorb for u, no expiry has happened, and another pod's
\* acquire_user_lock(u) was refused
C3_Witness ==
    \E p, q \in Pods :
        /\ InAbsorb(p)
        /\ local[q].pc = "absorb_skipped"
        /\ local[q].user_id = local[p].user_id
        /\ lock_expiries[local[p].user_id] = 0

\* C4: when the lock of u expired while its holder was alive and a second pod
\* absorbs in parallel, the batches of the two pods are disjoint.
C4_DisjointAfterExpiry ==
    \A p, q \in Pods :
        (/\ p # q
         /\ local[p].pc \in AfterRemove
         /\ local[q].pc \in AfterRemove
         /\ local[p].user_id = local[q].user_id
         /\ lock_expiries[local[p].user_id] > 0)
        => \A ts \in 1..MaxAppend :
               ~(/\ Occurrences(Timestamps(local[p].ready_to_process), ts) > 0
                 /\ Occurrences(Timestamps(local[q].ready_to_process), ts) > 0)

\* ----------------------------------------------------- properties: FIFO
\* C9: a full read of the queue of u returns, in append order, the messages
\* appended for u minus those taken off the head (by removal or capacity trim).
C9_FifoPerUser ==
    \A u \in Users :
        Timestamps(get_messages_from_redis(temp_messages[temp_messages_key(u)], 0)) =
            SubSeq(append_log[u], head_removed[u] + 1, Len(append_log[u]))

\* three appends, of which a removal from the head left the last one
C9_Witness ==
    \E u \in Users, p \in Pods :
        /\ Len(append_log[u]) = MaxAppend
        /\ Len(local[p].removed) >= 2
        /\ local[p].pc = "absorb_conv"
        /\ Len(temp_messages[temp_messages_key(u)]) >= 1

\* ----------------------------------------------------- properties: the race
\* C5: when both racing absorb calls have returned, the Dispatcher has received
\* exactly one batch, of exactly threshold messages, and the queue holds the
\* other N - threshold messages.
C5_RaceOutcome ==
    (\A p \in Pods : local[p].pc = "idle") =>
        /\ Len(dispatch_log) = 1
        /\ Len(dispatch_log[1].batch) = temporary_message_limit
        /\ LLEN(temp_messages[temp_messages_key("u1")]) =
               Len(append_log["u1"]) - temporary_message_limit

\* ------------------------------------------------- properties: readiness
\* the step in which pod p evaluates should_absorb_content
CheckStep(p) == local[p].pc = "idle" /\ local'[p].pc = "checked"

\* a queued (serialized) message has an image whose upload status is still pending
StillPending(statuses, msg) ==
    \E j \in 1..Len(msg.image_uris) :
        /\ msg.image_uris[j].type = "pending"
        /\ statuses[msg.image_uris[j].upload_uuid] # NoneDict
        /\ statuses[msg.image_uris[j].upload_uuid].status = "pending"

\* the length of the ready prefix: the messages before the first one that is
\* still pending
ReadyPrefixLen(statuses, queue) ==
    IF \E i \in 1..Len(queue) : StillPending(statuses, queue[i])
    THEN (CHOOSE i \in 1..Len(queue) :
              /\ StillPending(statuses, queue[i])
              /\ \A k \in 1..(i - 1) : ~StillPending(statuses, queue[k])) - 1
    ELSE Len(queue)

\* C6: if the message at 0-based position i of the queue has an image whose upload
\* is still pending, should_absorb_content returns a prefix of the queue of length
\* at most i, whatever follows that message.
C6_TemporalOrderReadiness ==
    [][\A p \in Pods :
          CheckStep(p) =>
              LET queue == temp_messages[temp_messages_key(local'[p].user_id)]
                  ready == local'[p].ready_messages
              IN  \A i \in 1..Len(queue) :
                      StillPending(upload_status, queue[i]) =>
                          /\ Len(ready) <= i - 1
                          /\ Timestamps(ready) = SubSeq(Timestamps(queue), 1, Len(ready))
      ]_vars

\* should_absorb_content returned the message before a still-pending one, and a
\* ready message follows the pending one
C6_Witness ==
    \E p \in Pods :
        LET queue == temp_messages[temp_messages_key("u1")]
            n == Len(local[p].ready_messages)
        IN  /\ local[p].pc = "checked"
            /\ n >= 1
            /\ Len(queue) >= n + 2
            /\ Timestamps(local[p].ready_messages) = SubSeq(Timestamps(queue), 1, n)
            /\ StillPending(upload_status, queue[n + 1])
            /\ ~StillPending(upload_status, queue[n + 2])

\* C7: should_absorb_content returns a non-empty result iff the ready prefix has at
\* least threshold messages, it never changes the queue, and without async upload
\* it is non-empty iff the queue length is at least the threshold.
C7_ThresholdGate ==
    [][\A p \in Pods :
          CheckStep(p) =>
              LET queue == temp_messages[temp_messages_key(local'[p].user_id)]
                  ready == local'[p].ready_messages
              IN  /\ ready # <<>> <=>
                         ReadyPrefixLen(upload_status, queue) >= temporary_message_limit
                  /\ ~needs_upload => (ready # <<>> <=> LLEN(queue) >= temporary_message_limit)
                  /\ temp_messages' = temp_messages
      ]_vars

\* the queue holds exactly threshold messages, all ready, and the check returned them
C7_Witness ==
    \E p \in Pods :
        LET queue == temp_messages[temp_messages_key("u1")] IN
        /\ local[p].pc = "checked"
        /\ LLEN(queue) = temporary_message_limit
        /\ Timestamps(local[p].ready_messages) = Timestamps(queue)

\* the Pending references of a queued message, as <<message index, image index>>
PendingRefs(queue) ==
    {ij \in (1..Len(queue)) \X (1..MaxImages) :
        /\ ij[2] <= Len(queue[ij[1]].image_uris)
        /\ queue[ij[1]].image_uris[ij[2]].type = "pending"}

\* the Remote reference a completed upload `id` resolves to
Remote(id) == [py |-> "dict", uri |-> CloudFile(id).uri, name |-> CloudFile(id).name]

\* C8: with at least threshold messages queued and exactly one Pending reference,
\* should_absorb_content returns nothing while that upload is pending and fewer
\* than threshold messages precede it; once the upload is completed it returns at
\* least threshold messages, the Pending reference replaced by the Remote one.
C8_BlockedPrefixUnblocks ==
    [][\A p \in Pods :
          LET queue == temp_messages[temp_messages_key(local'[p].user_id)]
              ready == local'[p].ready_messages
          IN  (/\ CheckStep(p)
               /\ needs_upload
               /\ LLEN(queue) >= temporary_message_limit
               /\ Cardinality(PendingRefs(queue)) = 1)
              => LET ij == CHOOSE x \in PendingRefs(queue) : TRUE
                     i == ij[1]
                     id == queue[i].image_uris[ij[2]].upload_uuid
                     st == get_upload_status(upload_status[id]).status
                 IN  /\ (st = "pending" /\ i - 1 < temporary_message_limit) => ready = <<>>
                     /\ st = "completed" =>
                            /\ Len(ready) >= temporary_message_limit
                            /\ Timestamps(ready) = Timestamps(queue)
                            /\ ready[i].image_uris = <<Remote(id)>>
      ]_vars

\* the check has returned a batch in which a completed upload's Remote reference
\* stands where the queue still holds the Pending one
C8_Witness ==
    \E p \in Pods :
        LET queue == temp_messages[temp_messages_key("u1")]
            ready == local[p].ready_messages
        IN  /\ local[p].pc = "checked"
            /\ Len(ready) >= temporary_message_limit
            /\ Timestamps(ready) = Timestamps(queue)
            /\ Cardinality(PendingRefs(queue)) = 1
            /\ \E i \in 1..Len(ready) :
                   /\ queue[i].image_uris # <<>>
                   /\ queue[i].image_uris[1].type = "pending"
                   /\ ready[i].image_uris = <<Remote(queue[i].image_uris[1].upload_uuid)>>

\* ------------------------------------------------- properties: isolation
\* the step belongs to an operation addressed to user u
ActsOn(u) ==
    \E p \in Pods :
        /\ local'[p] # local[p]
        /\ (local[p].user_id = u \/ local'[p].user_id = u)

\* C10: a step of an operation addressed to another user leaves messages(u),
\* conversations(u) and the absorb lock of u unchanged.
C10_UserIsolation ==
    [][\A u \in Users :
          ~ActsOn(u) =>
              /\ temp_messages'[temp_messages_key(u)] = temp_messages[temp_messages_key(u)]
              /\ user_conversations'[user_conversations_key(u)] =
                     user_conversations[user_conversations_key(u)]
              /\ lock_absorb'[lock_absorb_key(u)] = lock_absorb[lock_absorb_key(u)]
      ]_vars

\* a pod has absorbed for u2 and is about to release the lock of u2 while u1 has a
\* queued message, a conversation and its lock held by the other pod
C10_Witness ==
    \E p, q \in Pods :
        /\ p # q
        /\ local[p].user_id = "u2"
        /\ local[p].pc = "absorb_release"
        /\ head_removed["u2"] >= 1
        /\ local[q].user_id = "u1"
        /\ InAbsorb(q)
        /\ lock_absorb[lock_absorb_key("u1")]
        /\ LLEN(temp_messages[temp_messages_key("u1")]) >= 1
        /\ LLEN(user_conversations[user_conversations_key("u1")]) >= 1

\* ------------------------------------------------- properties: capacity
\* no add_message / add_user_conversation call is under way
AppendsCompleted ==
    \A p \in Pods : local[p].pc \notin {"add_llen", "add_ltrim", "conv_llen", "conv_ltrim"}

\* C11: when every append call has completed, the message queue of a user holds at
\* most redis_message_max_length elements and the conversation list at most
\* redis_conversation_max_length.
C11_CapacityBound ==
    AppendsCompleted =>
        \A u \in Users :
            /\ LLEN(temp_messages[temp_messages_key(u)]) <= redis_message_max_length
            /\ LLEN(user_conversations[user_conversations_key(u)]) <=
                   redis_conversation_max_length

\* more messages and more conversation pairs than fit were appended, all calls done
C11_Witness ==
    /\ AppendsCompleted
    /\ Len(append_log["u1"]) > redis_message_max_length
    /\ conv_count > redis_conversation_max_length
    /\ LLEN(temp_messages[temp_messages_key("u1")]) = redis_message_max_length
    /\ LLEN(user_conversations[user_conversations_key("u1")]) = redis_conversation_max_length

\* C12: after k > redis_message_max_length appends to an empty queue, all completed,
\* the queue holds exactly the redis_message_max_length most recently appended
\* messages, in append order.
C12_TrimKeepsNewest ==
    \A u \in Users :
        LET k == Len(append_log[u]) IN
        (AppendsCompleted /\ k > redis_message_max_length) =>
            Timestamps(get_messages_from_redis(temp_messages[temp_messages_key(u)], 0)) =
                SubSeq(append_log[u], k - redis_message_max_length + 1, k)

\* MaxAppend messages were appended and the queue holds the newest ones
C12_Witness ==
    /\ AppendsCompleted
    /\ Len(append_log["u1"]) = MaxAppend
    /\ MaxAppend > redis_message_max_length
    /\ head_removed["u1"] = MaxAppend - redis_message_max_length
    /\ LLEN(temp_messages[temp_messages_key("u1")]) = redis_message_max_length

\* ------------------------------------------- properties: initialization
\* every pod that entered the gate has returned from it
AllReturned == \A p \in Pods : local[p].pc = "init_returned"
GateRanFor(u) == \E p \in Pods : local[p].pc # "idle" /\ local[p].user_id = u

\* C13: once every pod has returned from the gate, the shared counter of a user the
\* gate ran for stands at exactly 1 and the user is marked initialized
C13_InitializedExactlyOnce ==
    \A u \in Users :
        (AllReturned /\ GateRanFor(u)) =>
            /\ initialization_count[u] = 1
            /\ is_user_initialized(user_init_done, u)

\* C14: a user is marked initialized only after the initialization work was performed
\* at least once, and a pod that marked an already marked user goes on with the
\* flag still set
C14_DoneImpliesInitialized ==
    /\ \A u \in Users : is_user_initialized(user_init_done, u) => init_work[u] >= 1
    /\ \A p \in Pods :
          (local[p].pc \in {"init_track", "init_release"} /\ ~local[p].setnx) =>
              is_user_initialized(user_init_done, local[p].user_id)

C14_Witness ==
    \E p \in Pods :
        /\ local[p].pc = "init_track"
        /\ ~local[p].setnx
        /\ is_user_initialized(user_init_done, local[p].user_id)
        /\ init_work[local[p].user_id] >= 1

\* ------------------------------------------- properties: serialization
\* the variant of an image reference, before or after the round trip
IsRemote(ref) ==
    \/ HasUriAttr(ref)
    \/ ref.py = "dict" /\ "type" \in DOMAIN ref /\ ref.type = "google_cloud_file"
Variant(ref) ==
    IF IsPendingPlaceholder(ref) THEN "Pending"
    ELSE IF IsRemote(ref) THEN "Remote"
    ELSE "Local"

SameRef(a, b) ==
    /\ Variant(a) = Variant(b)
    /\ Variant(a) = "Pending" => a.upload_uuid = b.upload_uuid /\ a.filename = b.filename
    /\ Variant(a) = "Remote" => a.uri = b.uri /\ a.name = b.name
    /\ Variant(a) = "Local" => b.py = "str" /\ a.path = b.path

\* C15: a message that went through _serialize_message and _deserialize_message has
\* its timestamp, text and source labels unchanged, as many image references as
\* before, each at its position with the same variant and the same identifying
\* fields, and no audio segments
C15_RoundTrip ==
    roundtrip.pc = "loaded" =>
        LET m == roundtrip.message_data
            r == roundtrip.result
        IN  /\ r.timestamp = roundtrip.timestamp
            /\ r.message = m.message
            /\ r.sources = m.sources
            /\ Len(r.image_uris) = Len(m.image_uris)
            /\ \A i \in 1..Len(m.image_uris) : SameRef(m.image_uris[i], r.image_uris[i])
            /\ r.audio_segments = NoneList

C15_Witness ==
    /\ roundtrip.pc = "loaded"
    /\ Len(roundtrip.message_data.image_uris) = MaxRefs
    /\ Variant(roundtrip.message_data.image_uris[1]) = "Pending"
    /\ Variant(roundtrip.message_data.image_uris[2]) = "Remote"
    /\ roundtrip.message_data.audio_segments # NoneList
    /\ roundtrip.result.image_uris[2].py = "dict"

\* ---------------------------------------------------- properties: pops
\* C16: a call atomic_pop_messages(u, n) with n >= 0 returns the first min(n, len)
\* elements of the queue in order and leaves exactly the remaining ones in order
C16_PopHead ==
    [][\A p \in Pods, u \in Users, n \in 0..MaxPop :
          atomic_pop(p, u, n) =>
              LET list == temp_messages[temp_messages_key(u)]
                  k == Min(n, Len(list))
              IN  /\ local'[p].removed = Timestamps(SubSeq(list, 1, k))
                  /\ temp_messages'[temp_messages_key(u)] = SubSeq(list, k + 1, Len(list))]_vars

\* the batches of the pods that all popped from u1's queue of append_log["u1"]
AllPopped == \A p \in Pods : local[p].pc = "popped" /\ local[p].user_id = "u1"
Elements(seq) == {seq[i] : i \in 1..Len(seq)}
Returned == UNION {Elements(local[p].removed) : p \in Pods}
RECURSIVE SumCounts(_)
SumCounts(ps) ==
    IF ps = {} THEN 0
    ELSE LET p == CHOOSE q \in ps : TRUE IN local[p].count + SumCounts(ps \ {p})
RECURSIVE SumBatches(_)
SumBatches(ps) ==
    IF ps = {} THEN 0
    ELSE LET p == CHOOSE q \in ps : TRUE IN Len(local[p].removed) + SumBatches(ps \ {p})
IsRunOf(batch, original) ==
    \E i \in 1..(Len(original) + 1) : batch = SubSeq(original, i, i + Len(batch) - 1)
Unreturned(ts) == ts \notin Returned

\* C17: when every pod has popped once from the same queue, the batches are pairwise
\* disjoint, each is a contiguous run of the original order, together they hold
\* min(L, sum of the counts) messages, and the queue holds exactly the others
C17_ConcurrentPops ==
    AllPopped =>
        LET original == append_log["u1"] IN
        /\ \A p, q \in Pods :
              p # q => Elements(local[p].removed) \cap Elements(local[q].removed) = {}
        /\ \A p \in Pods : IsRunOf(local[p].removed, original)
        /\ SumBatches(Pods) = Min(Len(original), SumCounts(Pods))
        /\ Timestamps(temp_messages[temp_messages_key("u1")]) = SelectSeq(original, Unreturned)

\* ---------------------------------------------- properties: simulation
AllSimulated == \A p \in Pods : local[p].pc = "sim_done"
Positive(c) == c > 0

\* C18: when every pod has run the simulated absorption on a queue that started with
\* twice the threshold, exactly one pod reported a batch, of exactly threshold
\* messages, and exactly threshold messages are still queued
C18_OnePodPops ==
    (AllSimulated /\ Len(append_log["u1"]) = 2 * SimThreshold) =>
        /\ SelectSeq(processed_counts, Positive) = <<SimThreshold>>
        /\ LLEN(temp_messages[temp_messages_key("u1")]) = SimThreshold

\* --------------------------------------------- properties: stale locks
\* C19: the lock a dead pod left behind disappears, and an acquire of the absorb
\* lock or of the init lock fails only while the lock exists
C19_StaleLockBound ==
    /\ \A u \in Users : StaleAbsorb(u) ~> ~lock_absorb[lock_absorb_key(u)]
    /\ \A u \in Users : StaleInit(u) ~> ~lock_init[lock_init_key(u)]
    /\ [][\A p \in Pods :
            /\ (local[p].pc = "absorb_called" /\ local'[p].pc = "absorb_skipped") =>
                   lock_absorb[lock_absorb_key(local[p].user_id)]
            /\ (local[p].pc = "init_try" /\ local'[p].pc = "init_returned") =>
                   lock_init[lock_init_key(local[p].user_id)]]_vars

C19_Witness ==
    \E p, q \in Pods :
        /\ local[p].pc = "dead_absorb"
        /\ local[q].pc \in Locked
        /\ local[q].user_id = local[p].user_id
        /\ lock_absorb[lock_absorb_key(local[p].user_id)]
        /\ lock_expiries[local[p].user_id] >= 1

\* -------------------------------------------------- properties: release
\* pod p leaves absorb_content_into_memory, by return or by exception
LeavesAbsorb(p) == local[p].pc \in Locked /\ local'[p].pc \notin Locked

\* the absorb lock of u is the one the pod inside absorb set: it exists and no TTL
\* of it has elapsed
OwnLockHeld(locks, expiries, u) == locks[lock_absorb_key(u)] /\ expiries[u] = 0

\* C20 (as stated): when absorb leaves, on whatever path, the lock it acquired is no
\* longer held
C20_ReleasedOnExit ==
    [][\A p \in Pods :
          LeavesAbsorb(p) => ~OwnLockHeld(lock_absorb', lock_expiries', local[p].user_id)]_vars

\* C20 (amended): absorb leaves only through release_user_lock in its finally clause,
\* on every path; the lock is absent right after unless that DEL itself failed
C20_ReleaseOnEveryPath ==
    [][\A p \in Pods :
          LeavesAbsorb(p) =>
              /\ local[p].pc = "absorb_release"
              /\ \/ ~lock_absorb'[lock_absorb_key(local[p].user_id)]
                 \/ release_user_lock_fault(p)]_vars

C20_Witness ==
    \E i \in 1..Len(dispatch_log) :
        /\ ~dispatch_log[i].ok
        /\ local[dispatch_log[i].pod].pc = "idle"
        /\ ~lock_absorb[lock_absorb_key(dispatch_log[i].user_id)]
        /\ lock_expiries[dispatch_log[i].user_id] = 0
        /\ \A q \in Pods : local[q].pc = "idle"

\* ------------------------------------------------ properties: contention
\* pod p takes a step of an absorb call that found the lock held
SkipStep(p) ==
    \/ local[p].pc = "absorb_called" /\ local'[p].pc = "absorb_skipped"
    \/ local[p].pc = "absorb_skipped" /\ local'[p].pc = "idle"

\* C21: an absorb call that finds the lock held changes neither the queues, the
\* upload status records nor the lock, and hands nothing to the Dispatcher
C21_ContentionNoEffect ==
    [][\A p \in Pods : SkipStep(p) => UNCHANGED <<coordinator, dispatch_log>>]_vars

C21_Witness ==
    \E p, q \in Pods :
        /\ local[p].pc = "absorb_skipped"
        /\ InAbsorb(q)
        /\ local[q].user_id = local[p].user_id
        /\ lock_absorb[lock_absorb_key(local[p].user_id)]
        /\ LLEN(temp_messages[temp_messages_key(local[p].user_id)]) > 0

\* ------------------------------------------------- properties: faults
\* C22: absorb never leaves with the exception of a coordinator fault still pending,
\* that is, it returns to its caller instead of raising
C22_FaultSwallowed ==
    [][\A p \in Pods : LeavesAbsorb(p) => local[p].exception # "coordinator"]_vars

\* the message stamped ts was handed to the Dispatcher by a call of pod p
DispatchedBy(p, ts) ==
    \E i \in 1..Len(dispatch_log) :
        dispatch_log[i].pod = p /\ ts \in Elements(dispatch_log[i].batch)

\* C23: when absorb leaves because of a coordinator fault, every message it took off
\* the queue was handed to the Dispatcher or is in the queue again
C23_NoLossOnFault ==
    [][\A p \in Pods :
          (LeavesAbsorb(p) /\ local[p].exception = "coordinator") =>
              \A ts \in Elements(local[p].removed) :
                  \/ DispatchedBy(p, ts)
                  \/ ts \in Elements(Timestamps(temp_messages'[temp_messages_key(local[p].user_id)]))]_vars

FailedDispatchStep(p) ==
    \/ local[p].pc = "absorb_send" /\ local'[p].exception = "dispatch"
    \/ local[p].exception = "dispatch" /\ local'[p] # local[p]

\* C25: once the dispatch of an absorption has failed, no step of that absorption
\* changes messages(u), and when it returns none of the messages it removed is in
\* the queue: they are not re-enqueued
C25_AtMostOnce ==
    [][\A p \in Pods :
          /\ FailedDispatchStep(p) => UNCHANGED temp_messages
          /\ (LeavesAbsorb(p) /\ local[p].exception = "dispatch") =>
                 \A ts \in Elements(local[p].removed) :
                     ts \notin Elements(Timestamps(temp_messages'[temp_messages_key(local[p].user_id)]))]_vars

C25_Witness ==
    \E p \in Pods :
        /\ local[p].pc = "absorb_release"
        /\ local[p].exception = "dispatch"
        /\ local[p].removed # <<>>
        /\ LLEN(temp_messages[temp_messages_key(local[p].user_id)]) > 0

\* ------------------------------------------ properties: upload status
\* the status a read of the record must return after the operations in `log`
LastWritten(log) ==
    IF log = <<>> THEN "unknown"
    ELSE IF log[Len(log)].op = "set" THEN log[Len(log)].status
    ELSE "unknown"

\* the last get_upload_status call was made in the present state of the records
ReadIsCurrent == status_read # NoneDict /\ status_read.at = StatusOps

\* C26: get_upload_status(id) returns the status written by the latest
\* set_upload_status(id) of any pod while the key lives, and status 'unknown' with
\* a null result when the key was never set, was deleted or has expired
C26_LastWriteRead ==
    ReadIsCurrent =>
        /\ status_read.ret.status = LastWritten(status_log[status_read.upload_id])
        /\ LastWritten(status_log[status_read.upload_id]) = "unknown" =>
               status_read.ret.result = NoneDict

C26_Witness ==
    /\ ReadIsCurrent
    /\ LET log == status_log[status_read.upload_id] IN
        /\ Len(log) >= 2
        /\ log[Len(log)].op = "set"
        /\ log[Len(log) - 1].op = "set"
        /\ log[Len(log)].status # log[Len(log) - 1].status
        /\ log[Len(log)].pod # log[Len(log) - 1].pod
        /\ status_read.pod # log[Len(log)].pod

C26_WitnessAbsent ==
    /\ ReadIsCurrent
    /\ status_read.ret.status = "unknown"
    /\ status_log[status_read.upload_id] # <<>>

\* ------------------------------------------ properties: prompt assembly
ImageParts(parts) == {i \in 1..Len(parts) : parts[i].role = "image"}

\* the source header the i-th part stands under
HeaderOf(parts, i) ==
    LET headers == {h \in 1..i : parts[h].role = "source_header"}
    IN  IF headers = {} THEN NoneStr
        ELSE parts[CHOOSE h \in headers : \A g \in headers : g <= h].source

\* the message had two images with source labels; upload j was dropped (failed or
\* unknown) and upload k completed
OneDroppedOneCompleted(j, k) ==
    /\ Len(build.all_messages[1].image_uris) = 2
    /\ {j, k} = {1, 2}
    /\ build.outcomes[j] \in {"failed", "unknown"}
    /\ build.outcomes[k] = "completed"

\* C27: a message with two labelled images, one upload failed or unknown and one
\* completed, yields a prompt with exactly one image, under the source label of the
\* completed image, and with the message's text
C27_FailedImageDropped ==
    \A j, k \in 1..2 :
        (build.pc = "built" /\ OneDroppedOneCompleted(j, k)) =>
            LET parts == build.message_parts IN
            /\ Cardinality(ImageParts(parts)) = 1
            /\ \A i \in ImageParts(parts) :
                  /\ parts[i].uri = upload_id_of(1, k)
                  /\ HeaderOf(parts, i) = build.all_messages[1].sources[k]
            /\ build.all_messages[1].message # NoneStr =>
                  \E i \in 1..Len(parts) :
                      parts[i].role = "text" /\ parts[i].text = build.all_messages[1].message

\* ------------------------------------------ properties: local image files
\* the local image paths of the entries in `batch`
BatchPaths(batch) == UNION {LocalPaths(batch[i]) : i \in 1..Len(batch)}

\* C28: the cleanup after a successful dispatch deletes the local image files of
\* exactly those absorbed entries that were appended with delete_after_upload =
\* true, and no file of an entry appended with delete_after_upload = false
C28_DeletesOnlyFlagged ==
    [][\A p \in Pods :
          (local[p].pc = "absorb_cleanup" /\ local'[p].pc = "absorb_release") =>
              deleted_files' = deleted_files \cup
                  {path \in BatchPaths(local[p].ready_to_process) : path = "temporary.png"}]_vars

\* ------------------------------------------ properties: validation
\* C29: a call of any queue, conversation, lock, init, accumulator or upload-status
\* operation with a null id raises a validation error before the coordinator client
\* is reached, and the step leaves every coordinator key as it was
C29_NullIdRejected ==
    [][rejected' # rejected =>
          /\ rejected'[Len(rejected')].outcome.raised = "ValueError"
          /\ ~rejected'[Len(rejected')].outcome.client
          /\ UNCHANGED <<coordinator, initialization>>]_vars

C29_Witness ==
    /\ rejected # <<>>
    /\ rejected[1].op = "acquire_user_lock"
    /\ lock_absorb[lock_absorb_key("u1")]
    /\ LLEN(temp_messages[temp_messages_key("u1")]) > 0

\* ------------------------------------------ properties: key TTLs
\* C30: when an append to messages(u) or conversations(u) returns, the key exists
\* and its TTL runs for the full message_ttl (conversation_ttl) from a moment within
\* that call, whatever TTL the key had before
C30_TtlRefreshed ==
    [][\A p \in Pods :
          /\ (local[p].pc = "add_ltrim" /\ local'[p].pc = "idle") =>
                 /\ temp_messages'[temp_messages_key(local[p].user_id)] # <<>>
                 /\ queue_ttl'.temp_messages >= queue_ttl.called_at[p] + redis_message_ttl
          /\ (local[p].pc = "conv_ltrim" /\ local'[p].pc = "idle") =>
                 /\ user_conversations'[user_conversations_key(local[p].user_id)] # <<>>
                 /\ queue_ttl'.user_conversations >=
                        queue_ttl.called_at[p] + redis_conversation_ttl]_vars

\* ------------------------------------------ properties: conversations
\* a step pod p takes inside absorb_content_into_memory
AbsorbStepOf(p) == InAbsorb(p) /\ local'[p] # local[p]

\* the cleanup of an absorption whose prompt included the transcript and whose
\* dispatch returned
ClearingStep(p) ==
    /\ local[p].pc = "absorb_cleanup"
    /\ local[p].user_message_added
    /\ local[p].exception = NoneStr

\* C31: a step of absorb(u) empties conversations(u) when it is the cleanup after a
\* successful dispatch of a prompt that included a non-empty transcript; every
\* other step of absorb, and every step after a failed dispatch, leaves
\* conversations(u) unchanged
C31_ClearIffIncluded ==
    [][\A p \in Pods :
          AbsorbStepOf(p) =>
              IF ClearingStep(p)
              THEN user_conversations'[user_conversations_key(local[p].user_id)] = <<>>
              ELSE UNCHANGED user_conversations]_vars

C31_Witness ==
    \E p \in Pods :
        /\ local[p].pc = "absorb_release"
        /\ local[p].user_message_added
        /\ local[p].exception = NoneStr
        /\ user_conversations[user_conversations_key(local[p].user_id)] = <<>>
        /\ \E i \in 1..Len(dispatch_log) : dispatch_log[i].pod = p /\ dispatch_log[i].ok

C31_WitnessKept ==
    \E p \in Pods :
        /\ local[p].pc = "absorb_release"
        /\ local[p].user_message_added
        /\ local[p].exception = "dispatch"
        /\ user_conversations[user_conversations_key(local[p].user_id)] # <<>>

C33_AbsorbRecomputesPrefix ==
    [][\A p \in Pods :
          /\ (local[p].pc = "absorb_resolve" /\ local'[p].pc = "absorb_remove") =>
                 Timestamps(local'[p].ready_to_process) =
                     Timestamps(ReadyWalk(upload_status, local[p].all_messages, 1, <<>>))
          /\ (local[p].pc = "absorb_remove" /\ local'[p].pc = "absorb_conv"
                  /\ ~local[p].has_preview) =>
                 local'[p].removed = Timestamps(local[p].ready_to_process)]_vars

\* ------------------------------------------ properties: text messages of a prompt
TextParts(parts) == {i \in 1..Len(parts) : parts[i].role = "text"}

\* C34: the assembled prompt holds the text messages of the batch in ascending
\* timestamp order, all of them after one single text header, whatever the order
\* of the timestamps the producers gave
C34_TextInTimestampOrder ==
    build.pc = "built" =>
        LET parts == build.message_parts IN
        /\ \A i, j \in TextParts(parts) :
               i < j => parts[i].timestamp <= parts[j].timestamp
        /\ TextParts(parts) # {} =>
               /\ Cardinality({h \in 1..Len(parts) : parts[h].role = "text_intro"}) = 1
               /\ \A h \in 1..Len(parts), i \in TextParts(parts) :
                      parts[h].role = "text_intro" => h < i

\* ------------------------------------------ properties: whose lock is released
\* the absorb lock of its user is the one pod q set: q is inside absorb, the key
\* exists and no TTL of it has elapsed since q's acquire_user_lock
HoldsLock(q) ==
    /\ InAbsorb(q)
    /\ lock_absorb[lock_absorb_key(local[q].user_id)]
    /\ lock_expiries[local[q].user_id] = local[q].lock_epoch

\* C35: the release_user_lock at the end of a pod's absorb never removes the absorb
\* lock another pod holds, also when the releasing pod's own lock had expired
C35_ReleaseOnlyOwnLock ==
    [][\A p, q \in Pods :
          (/\ p # q
           /\ local[p].pc = "absorb_release"
           /\ local'[p].pc \notin Locked
           /\ local[q].user_id = local[p].user_id
           /\ HoldsLock(q))
              => lock_absorb'[lock_absorb_key(local[q].user_id)]]_vars

\* ------------------------------------------ properties: empty batches
\* C36: the Dispatcher is never called with an empty batch: an absorb that finds the
\* queue empty, is given an empty preview, or finds only messages with pending
\* uploads, dispatches nothing
C36_NoEmptyDispatch ==
    \A i \in 1..Len(dispatch_log) : dispatch_log[i].batch # <<>>

\* ------------------------------------------ properties: read, then clear
\* C37: every conversation pair that absorb's clear removes was in the transcript
\* that absorb read and handed to the Dispatcher
C37_ClearedWasIncluded ==
    [][\A p \in Pods :
          (local[p].pc = "absorb_cleanup" /\ local'[p].pc # "absorb_cleanup") =>
              \A pair \in Elements(user_conversations[user_conversations_key(local[p].user_id)]) :
                  \/ pair \in Elements(user_conversations'[user_conversations_key(local[p].user_id)])
                  \/ pair \in Elements(local[p].conversations)]_vars

\* ------------------------------------------ properties: every key has a TTL
\* C38: in every reachable state each key the core has written carries a finite
\* TTL, so a pod that stops between two commands leaves nothing that lives forever:
\* the message queue and the conversation list of a user, and the init-done flag
C38_EveryKeyHasTtl ==
    /\ temp_messages[temp_messages_key("u1")] # <<>> => queue_ttl.temp_messages # NoTtl
    /\ user_conversations[user_conversations_key("u1")] # <<>> =>
           queue_ttl.user_conversations # NoTtl
    /\ \A u \in Users : user_init_done[user_init_done_key(u)] # "persistent"

\* ------------------------------------------ properties: a pending image unblocks
\* the queue of u1 holds at least threshold messages, one of them with an image
\* whose upload is still pending
BlockedByPending ==
    LET queue == temp_messages[temp_messages_key("u1")] IN
    /\ needs_upload
    /\ LLEN(queue) >= temporary_message_limit
    /\ \E i \in 1..Len(queue) : StillPending(upload_status, queue[i])

\* C39: a Pending image does not block the queue forever: its upload reaches
\* completed or failed, or its status record expires or is deleted, and a later
\* should_absorb_content walks past it, so that with at least threshold messages
\* queued the check eventually returns a batch
C39_PendingEventuallyPassed ==
    BlockedByPending ~> (local["p1"].pc = "checked" /\ local["p1"].ready_messages # <<>>)

\* the check has returned a batch that holds a message whose upload had been
\* pending and whose status is now failed or unknown: the image was dropped
C39_Witness ==
    LET queue == temp_messages[temp_messages_key("u1")]
        ready == local["p1"].ready_messages
    IN  /\ local["p1"].pc = "checked"
        /\ Len(ready) >= temporary_message_limit
        /\ \E i \in 1..Len(ready) :
               /\ i <= Len(queue)
               /\ queue[i].timestamp = ready[i].timestamp
               /\ queue[i].image_uris # <<>>
               /\ queue[i].image_uris[1].type = "pending"
               /\ get_upload_status(upload_status[queue[i].image_uris[1].upload_uuid]).status
                      \in {"failed", "unknown"}
               /\ ready[i].image_uris = <<>>

====
